---- MODULE Spec2Model ----
(***************************************************************************)
(* Model of Falcor's packed ray-hit codec (Scene/HitInfo.slang, held in    *)
(* src/unnamed/part_000 lines 216-688): the header codec, the per-variant  *)
(* codecs and the polymorphic HitInfo container.  Further down: a buffer   *)
(* of packed hits with its producers and readers, the compute passes of    *)
(* the BSDF viewer and of the BSDF optimizer's viewer, and the PBRT        *)
(* conductor BSDF; each of these says what it keeps in the variables.      *)
(*                                                                         *)
(* A 32-bit word is modelled as the set of its set bit positions, so that  *)
(* |, &, << and >> act on all 32 bits exactly as on the GPU: | is union,   *)
(* & is intersection, a shift moves positions and drops those that leave   *)
(* the word.  A float is modelled by its 32-bit pattern; asuint/asfloat    *)
(* are reinterpretations of that pattern.                                  *)
(***************************************************************************)
EXTENDS Integers, Sequences, FiniteSets, TLC

VARIABLES
    cfg,     \* the build configuration (the HIT_INFO_* / SCENE_* defines)
    pc,      \* position of the invocation: "start", "packed", "done"
    op,      \* the operation that produced the current state
    inp,     \* the arguments of that operation
    data,    \* the PackedHitInfo under construction / HitInfo::data
    acc,     \* the accessor / unpack function applied to data, if any
    out      \* what that accessor returned

vars == <<cfg, pc, op, inp, data, acc, out>>

---------------------------------------------------------------------------
(* 32-bit words *)

WordBits == 32

Bit == 0 .. (WordBits - 1)

Zero == {}

AllOnes == Bit

RECURSIVE Pow2(_)
Pow2(n) == IF n = 0 THEN 1 ELSE 2 * Pow2(n - 1)

\* The word holding the number n (0 <= n < 2^31).
ToWord(n) == {b \in 0 .. 30 : (n \div Pow2(b)) % 2 = 1}

RECURSIVE Val(_)
\* The number held by a word whose bit 31 is clear.
Val(w) == IF w = {} THEN 0
          ELSE LET b == CHOOSE x \in w : TRUE IN Pow2(b) + Val(w \ {b})

Or(a, b) == a \cup b

And(a, b) == a \cap b

\* w - 1 modulo 2^32.
Dec(w) ==
    IF w = {} THEN AllOnes
    ELSE LET l == CHOOSE x \in w : \A y \in w : x <= y
         IN (w \ {l}) \cup (0 .. (l - 1))

\* w << n and w >> n on a uint.  A shift count of 32 or more is undefined:
\* the build either takes the count modulo 32 (c.shiftWraps) or yields 0.
Shl(c, w, n) ==
    IF n < WordBits THEN {b + n : b \in w} \cap Bit
    ELSE IF c.shiftWraps THEN {b + (n % WordBits) : b \in w} \cap Bit
    ELSE Zero

Shr(c, w, n) ==
    IF n < WordBits THEN {b - n : b \in {x \in w : x >= n}}
    ELSE IF c.shiftWraps THEN {b - (n % WordBits) : b \in {x \in w : x >= n % WordBits}}
    ELSE Zero

\* 0xffff
LowBits16 == 0 .. 15

---------------------------------------------------------------------------
(* Floats: a float is its 32-bit pattern *)

asuint(f) == f

asfloat(w) == w

\* The pattern with sign s, biased exponent e and 23-bit mantissa m.
MakeFloat(s, e, m) == ToWord(e * Pow2(23) + m) \cup (IF s THEN {31} ELSE {})

FloatSign(f) == 31 \in f

FloatExp(f) == Val(Shr([shiftWraps |-> FALSE], f \ {31}, 23))

FloatMan(f) == Val(f \cap (0 .. 22))

\* Number of bits of n > 0.
RECURSIVE BitLength(_)
BitLength(n) == IF n = 0 THEN 0 ELSE 1 + BitLength(n \div 2)

\* n / 2^r rounded to nearest, ties to even.
RoundShift(n, r) ==
    IF r <= 0 THEN n
    ELSE LET q == n \div Pow2(r)
             rem == n % Pow2(r)
             half == Pow2(r - 1)
         IN IF rem > half \/ (rem = half /\ q % 2 = 1) THEN q + 1 ELSE q

\* f32tof16: the half-float pattern of f in the low 16 bits.  Values a half
\* cannot hold exactly are rounded to nearest even when rne and towards zero
\* otherwise (the intrinsic leaves the choice to the implementation).
f32tof16(f, rne) ==
    LET s == IF FloatSign(f) THEN {15} ELSE {}
        e == FloatExp(f)
        m == FloatMan(f)
        he == e - 112
        mag ==
            IF e = 255 THEN (IF m = 0 THEN 31744 ELSE 32256)
            ELSE IF e = 0 THEN 0
            ELSE IF he >= 31 THEN (IF rne THEN 31744 ELSE 31743)
            ELSE IF he >= 1 THEN
                LET whole == he * 1024 + (m \div 8192)
                    up == IF rne THEN RoundShift(m, 13) - (m \div 8192) ELSE 0
                IN IF whole + up >= 31744 /\ ~rne THEN 31743 ELSE whole + up
            ELSE
                LET big == Pow2(23) + m
                    sh == 14 - he
                IN IF sh > 25 THEN 0
                   ELSE IF rne THEN RoundShift(big, sh) ELSE big \div Pow2(sh)
    IN ToWord(mag) \cup s

\* f16tof32: the float with the value of the half in the low 16 bits of w.
f16tof32(w) ==
    LET s == 15 \in w
        e == Val(w \cap (10 .. 14)) \div 1024
        m == Val(w \cap (0 .. 9))
    IN IF e = 31 THEN MakeFloat(s, 255, m * 8192)
       ELSE IF e = 0 THEN
            (IF m = 0 THEN MakeFloat(s, 0, 0)
             ELSE LET k == BitLength(m) - 1
                  IN MakeFloat(s, 103 + k, (m - Pow2(k)) * Pow2(23 - k)))
       ELSE MakeFloat(s, e + 112, m * 8192)

\* The odd part k and the exponent x of a positive normal float: f = k * 2^x.
RECURSIVE OddPart(_, _)
OddPart(n, x) == IF n % 2 = 0 THEN OddPart(n \div 2, x + 1) ELSE <<n, x>>

\* The floats whose products with a 24-bit scale the model computes: +0 and
\* the positive normal floats k * 2^x with k < 128 and -24 <= x <= 0.
Quantizable(f) ==
    \/ f = Zero
    \/ /\ ~FloatSign(f) /\ FloatExp(f) \in 1 .. 254
       /\ LET kx == OddPart(Pow2(23) + FloatMan(f), FloatExp(f) - 150)
          IN kx[1] < 128 /\ kx[2] \in -24 .. 0

\* n * 2^x rounded to a float (24 significant bits, ties to even), as <<n, x>>.
RoundFloat(n, x) ==
    LET r == BitLength(n) - 24
    IN IF r <= 0 THEN <<n, x>> ELSE <<RoundShift(n, r), x + r>>

\* (uint)trunc(v * scale + 0.5f) in float arithmetic: the product is rounded
\* to a float, then the sum, then the fraction is dropped.
quantize(v, scale) ==
    IF v = Zero THEN Zero
    ELSE LET kx == OddPart(Pow2(23) + FloatMan(v), FloatExp(v) - 150)
             prod == RoundFloat(kx[1] * scale, kx[2])
             n == prod[1]
             x == prod[2]
             sum == IF x >= -1 THEN RoundFloat(n * Pow2(x + 1) + 1, -1)
                    ELSE RoundFloat(n + Pow2(-1 - x), x)
         IN ToWord(IF sum[2] >= 0 THEN sum[1] * Pow2(sum[2])
                   ELSE sum[1] \div Pow2(-sum[2]))

\* The float u * (1.f / scale), kept as the product it is.
unormToFloat(u, scale) == [unorm |-> u, scale |-> scale]

Unorm16Scale == 65535

Unorm24Scale == 16777215

packUnorm16_unsafe(v) == quantize(v, Unorm16Scale)

packUnorm2x16_unsafe(v) ==
    Or(Shl([shiftWraps |-> FALSE], packUnorm16_unsafe(v[2]), 16), packUnorm16_unsafe(v[1]))

unpackUnorm2x16(w) ==
    <<unormToFloat(And(w, LowBits16), Unorm16Scale),
      unormToFloat(Shr([shiftWraps |-> FALSE], w, 16), Unorm16Scale)>>

---------------------------------------------------------------------------
(* HitType and the configuration *)

HitTypeNone == 0
HitTypeTriangle == 1
HitTypeDisplacedTriangle == 2
HitTypeCurve == 3
HitTypeSDFGrid == 4
HitTypeVolume == 5

HitType == HitTypeNone .. HitTypeVolume

kTypeBits(c) == c.typeBits

kInstanceIDBits(c) == c.instanceIDBits

kPrimitiveIndexBits(c) == c.primitiveIndexBits

kTypeOffset(c) == WordBits - kTypeBits(c)

kInstanceIDOffset(c) == kPrimitiveIndexBits(c)

kHeaderBits(c) == kTypeBits(c) + kInstanceIDBits(c) + kPrimitiveIndexBits(c)

\* Mutant: PackedHitInfo is a uint4 whatever the compression flag.
PackedSize_AlwaysFour(c) == 4

\* Number of uints of a PackedHitInfo: uint2 with compression, uint4 without.
PackedSize(c) == IF c.useCompression THEN 2 ELSE 4

\* Mutant: the words are left uninitialized instead of zeroed.
ZeroPacked_Uninitialized(c) == [i \in 0 .. (PackedSize(c) - 1) |-> AllOnes]

\* PackedHitInfo packed = {};
ZeroPacked(c) == [i \in 0 .. (PackedSize(c) - 1) |-> Zero]

\* packed[i] = w.  A component index outside the vector is not a component
\* of the value: the store does not change it.
SetWord(p, i, w) == IF i \in DOMAIN p THEN [p EXCEPT ![i] = w] ELSE p

\* Mutant: the mask is one bit too wide.
FieldMask_OffByOne(c, n) == Dec(Shl(c, {0}, n + 1))

\* (1 << fieldBits) - 1
FieldMask(c, n) == Dec(Shl(c, {0}, n))

---------------------------------------------------------------------------
(* HitInfo::packHeader / HitInfo::unpackHeader *)

packHeaderType(c, packed, type) ==
    SetWord(packed, 0, Shl(c, ToWord(type), kTypeOffset(c)))

\* Mutant: the two-word layout is written whatever kHeaderBits is.
packHeader_AlwaysTwoWords(c, packed, type, instanceID, primitiveIndex) ==
    SetWord(SetWord(packed, 0,
                Or(Shl(c, ToWord(type), kTypeOffset(c)), instanceID)),
            1, primitiveIndex)

\* Mutant: the instanceID is shifted by its own width, not by kInstanceIDOffset.
packHeader_ShiftByInstanceBits(c, packed, type, instanceID, primitiveIndex) ==
    IF kHeaderBits(c) <= 32
    THEN SetWord(packed, 0,
            Or(Or(Shl(c, ToWord(type), kTypeOffset(c)),
                  Shl(c, instanceID, kInstanceIDBits(c))),
               primitiveIndex))
    ELSE SetWord(SetWord(packed, 0,
                    Or(Shl(c, ToWord(type), kTypeOffset(c)), instanceID)),
                 1, primitiveIndex)

packHeader(c, packed, type, instanceID, primitiveIndex) ==
    IF kHeaderBits(c) <= 32
    THEN SetWord(packed, 0,
            Or(Or(Shl(c, ToWord(type), kTypeOffset(c)),
                  Shl(c, instanceID, kInstanceIDOffset(c))),
               primitiveIndex))
    ELSE SetWord(SetWord(packed, 0,
                    Or(Shl(c, ToWord(type), kTypeOffset(c)), instanceID)),
                 1, primitiveIndex)

\* Mutant: the single-word layout is decoded whatever kHeaderBits is.
unpackHeader_OneWordOnly(c, packed) ==
    [instanceID |-> And(Shr(c, packed[0], kInstanceIDOffset(c)),
                        FieldMask(c, kInstanceIDBits(c))),
     primitiveIndex |-> And(packed[0], FieldMask(c, kPrimitiveIndexBits(c)))]

\* Mutant: the two-word branch masks the primitiveIndex too.
unpackHeader_MaskPrimitive(c, packed) ==
    IF kHeaderBits(c) <= 32
    THEN [instanceID |-> And(Shr(c, packed[0], kInstanceIDOffset(c)),
                             FieldMask(c, kInstanceIDBits(c))),
          primitiveIndex |-> And(packed[0], FieldMask(c, kPrimitiveIndexBits(c)))]
    ELSE [instanceID |-> And(packed[0], FieldMask(c, kInstanceIDBits(c))),
          primitiveIndex |-> And(packed[1], FieldMask(c, kPrimitiveIndexBits(c)))]

\* Mutant: the instanceID is not masked.
unpackHeader_NoInstanceMask(c, packed) ==
    IF kHeaderBits(c) <= 32
    THEN [instanceID |-> Shr(c, packed[0], kInstanceIDOffset(c)),
          primitiveIndex |-> And(packed[0], FieldMask(c, kPrimitiveIndexBits(c)))]
    ELSE [instanceID |-> packed[0],
          primitiveIndex |-> packed[1]]

unpackHeader(c, packed) ==
    IF kHeaderBits(c) <= 32
    THEN [instanceID |-> And(Shr(c, packed[0], kInstanceIDOffset(c)),
                             FieldMask(c, kInstanceIDBits(c))),
          primitiveIndex |-> And(packed[0], FieldMask(c, kPrimitiveIndexBits(c)))]
    ELSE [instanceID |-> And(packed[0], FieldMask(c, kInstanceIDBits(c))),
          primitiveIndex |-> packed[1]]

\* Mutant: the tag is shifted down by kTypeBits, not by kTypeOffset.
getType_ShiftByTypeBits(c, d) == Shr(c, d[0], kTypeBits(c))

\* HitType(data[0] >> kTypeOffset), as the number of the tag when it is one
\* of the enumerators and as the raw word otherwise.
getType(c, d) == Shr(c, d[0], kTypeOffset(c))

\* Mutant: validity is tested on the whole of word 0.
isValid_AnyBitOfWord0(c, d) == d[0] # Zero

isValid(c, d) == getType(c, d) # ToWord(HitTypeNone)

---------------------------------------------------------------------------
(* The variant codecs *)

SCENE_HAS_GEOMETRY_TYPE(c, g) == g \in c.geometryTypes

\* packed[i].  A uint2 has no component 2 or 3: reading one gives a word the
\* code does not determine, stray.
GetWord(p, i, stray) == IF i \in DOMAIN p THEN p[i] ELSE stray

\* this = {};
ZeroGeometryHit == [instanceID |-> Zero, primitiveIndex |-> Zero, barycentrics |-> <<Zero, Zero>>]

\* Mutant: words whose tag is not HitType::Triangle are decoded as if zero.
TriangleHit_init_CheckedTag(c, packed) ==
    IF SCENE_HAS_GEOMETRY_TYPE(c, "TriangleMesh")
    THEN LET p == IF Shr(c, packed[0], kTypeOffset(c)) = ToWord(HitTypeTriangle)
                  THEN packed ELSE ZeroPacked(c)
             h == unpackHeader(c, p)
         IN [instanceID |-> h.instanceID,
             primitiveIndex |-> h.primitiveIndex,
             barycentrics |->
                IF c.useCompression THEN unpackUnorm2x16(p[1])
                ELSE <<asfloat(p[2]), asfloat(p[3])>>]
    ELSE ZeroGeometryHit

\* Mutant: with compression the barycentrics are unpacked from word 0.
TriangleHit_init_UnpackWord0(c, packed) ==
    IF SCENE_HAS_GEOMETRY_TYPE(c, "TriangleMesh")
    THEN LET h == unpackHeader(c, packed)
         IN [instanceID |-> h.instanceID,
             primitiveIndex |-> h.primitiveIndex,
             barycentrics |->
                IF c.useCompression THEN unpackUnorm2x16(packed[0])
                ELSE <<asfloat(packed[2]), asfloat(packed[3])>>]
    ELSE ZeroGeometryHit

TriangleHit_init(c, packed) ==
    IF SCENE_HAS_GEOMETRY_TYPE(c, "TriangleMesh")
    THEN LET h == unpackHeader(c, packed)
         IN [instanceID |-> h.instanceID,
             primitiveIndex |-> h.primitiveIndex,
             barycentrics |->
                IF c.useCompression THEN unpackUnorm2x16(packed[1])
                ELSE <<asfloat(packed[2]), asfloat(packed[3])>>]
    ELSE ZeroGeometryHit

\* Mutant: instanceID and primitiveIndex are passed to packHeader swapped.
TriangleHit_pack_SwappedFields(c, h) ==
    IF SCENE_HAS_GEOMETRY_TYPE(c, "TriangleMesh")
    THEN LET p == packHeader(c, ZeroPacked(c), HitTypeTriangle, h.primitiveIndex, h.instanceID)
         IN IF c.useCompression
            THEN SetWord(p, 1, packUnorm2x16_unsafe(h.barycentrics))
            ELSE SetWord(SetWord(p, 2, asuint(h.barycentrics[1])), 3, asuint(h.barycentrics[2]))
    ELSE ZeroPacked(c)

TriangleHit_pack(c, h) ==
    IF SCENE_HAS_GEOMETRY_TYPE(c, "TriangleMesh")
    THEN LET p == packHeader(c, ZeroPacked(c), HitTypeTriangle, h.instanceID, h.primitiveIndex)
         IN IF c.useCompression
            THEN SetWord(p, 1, packUnorm2x16_unsafe(h.barycentrics))
            ELSE SetWord(SetWord(p, 2, asuint(h.barycentrics[1])), 3, asuint(h.barycentrics[2]))
    ELSE ZeroPacked(c)

ZeroDisplacedTriangleHit ==
    [instanceID |-> Zero, primitiveIndex |-> Zero, barycentrics |-> <<Zero, Zero>>,
     displacement |-> Zero]

DisplacedTriangleHit_init(c, packed, stray) ==
    IF SCENE_HAS_GEOMETRY_TYPE(c, "DisplacedTriangleMesh")
    THEN LET h == unpackHeader(c, packed)
             w2 == GetWord(packed, 2, stray)
             w3 == GetWord(packed, 3, stray)
             ux == Shr(c, w2, 8)
             uy == Or(Shl(c, And(w2, 0 .. 7), 16), Shr(c, w3, 16))
         IN [instanceID |-> h.instanceID,
             primitiveIndex |-> h.primitiveIndex,
             barycentrics |-> <<unormToFloat(ux, Unorm24Scale), unormToFloat(uy, Unorm24Scale)>>,
             displacement |-> f16tof32(w3)]
    ELSE ZeroDisplacedTriangleHit

\* Mutant: y is split at bit 8 instead of bit 16.
DisplacedTriangleHit_pack_SplitAtByte(c, h, rne) ==
    IF SCENE_HAS_GEOMETRY_TYPE(c, "DisplacedTriangleMesh")
    THEN LET p == packHeader(c, ZeroPacked(c), HitTypeDisplacedTriangle,
                             h.instanceID, h.primitiveIndex)
             ux == quantize(h.barycentrics[1], Unorm24Scale)
             uy == quantize(h.barycentrics[2], Unorm24Scale)
         IN SetWord(SetWord(p, 2, Or(Shl(c, ux, 8), Shr(c, uy, 8))),
                    3, Or(Shl(c, uy, 16), f32tof16(h.displacement, rne)))
    ELSE ZeroPacked(c)

DisplacedTriangleHit_pack(c, h, rne) ==
    IF SCENE_HAS_GEOMETRY_TYPE(c, "DisplacedTriangleMesh")
    THEN LET p == packHeader(c, ZeroPacked(c), HitTypeDisplacedTriangle,
                             h.instanceID, h.primitiveIndex)
             ux == quantize(h.barycentrics[1], Unorm24Scale)
             uy == quantize(h.barycentrics[2], Unorm24Scale)
         IN SetWord(SetWord(p, 2, Or(Shl(c, ux, 8), Shr(c, uy, 16))),
                    3, Or(Shl(c, uy, 16), f32tof16(h.displacement, rne)))
    ELSE ZeroPacked(c)

\* Mutant: the words are decoded whether or not the scene has curves.
CurveHit_init_AlwaysDecode(c, packed, stray) ==
    LET h == unpackHeader(c, packed)
    IN [instanceID |-> h.instanceID,
        primitiveIndex |-> h.primitiveIndex,
        barycentrics |-> <<asfloat(GetWord(packed, 2, stray)),
                           asfloat(GetWord(packed, 3, stray))>>]

CurveHit_init(c, packed, stray) ==
    IF SCENE_HAS_GEOMETRY_TYPE(c, "Curve")
    THEN LET h == unpackHeader(c, packed)
         IN [instanceID |-> h.instanceID,
             primitiveIndex |-> h.primitiveIndex,
             barycentrics |-> <<asfloat(GetWord(packed, 2, stray)),
                                asfloat(GetWord(packed, 3, stray))>>]
    ELSE ZeroGeometryHit

\* Mutant: the header is packed whether or not curves are enabled.
CurveHit_pack_HeaderWhenDisabled(c, h) ==
    LET p == packHeader(c, ZeroPacked(c), HitTypeCurve, h.instanceID, h.primitiveIndex)
    IN IF SCENE_HAS_GEOMETRY_TYPE(c, "Curve")
       THEN SetWord(SetWord(p, 2, asuint(h.barycentrics[1])), 3, asuint(h.barycentrics[2]))
       ELSE p

\* Mutant: x and y are stored in each other's word.
CurveHit_pack_SwappedWords(c, h) ==
    IF SCENE_HAS_GEOMETRY_TYPE(c, "Curve")
    THEN LET p == packHeader(c, ZeroPacked(c), HitTypeCurve, h.instanceID, h.primitiveIndex)
         IN SetWord(SetWord(p, 3, asuint(h.barycentrics[1])), 2, asuint(h.barycentrics[2]))
    ELSE ZeroPacked(c)

CurveHit_pack(c, h) ==
    IF SCENE_HAS_GEOMETRY_TYPE(c, "Curve")
    THEN LET p == packHeader(c, ZeroPacked(c), HitTypeCurve, h.instanceID, h.primitiveIndex)
         IN SetWord(SetWord(p, 2, asuint(h.barycentrics[1])), 3, asuint(h.barycentrics[2]))
    ELSE ZeroPacked(c)

\* The integer field of SDFGridHitData the configured implementation has.
SDFGridField(c) ==
    CASE c.sdfImpl = "NDSDF" -> "lod"
      [] c.sdfImpl \in {"SVS", "SBS"} -> "primitiveID"
      [] c.sdfImpl = "SVO" -> "svoIndex"

\* SDFGridHitData: the active integer field and hitT.
SDFGridHitData(c, primitiveData, hitT) ==
    [field |-> SDFGridField(c), value |-> primitiveData, hitT |-> hitT]

ZeroSDFGridHit(c) == [instanceID |-> Zero, hitData |-> SDFGridHitData(c, Zero, Zero)]

SDFGridHit_init(c, packed, stray) ==
    IF SCENE_HAS_GEOMETRY_TYPE(c, "SDFGrid")
    THEN LET h == unpackHeader(c, packed)
         IN [instanceID |-> h.instanceID,
             hitData |-> SDFGridHitData(c, h.primitiveIndex,
                                        asfloat(GetWord(packed, 2, stray)))]
    ELSE ZeroSDFGridHit(c)

\* Mutant: hitT is stored in word 1.
SDFGridHit_pack_HitTInWord1(c, h) ==
    IF SCENE_HAS_GEOMETRY_TYPE(c, "SDFGrid")
    THEN packHeader(c, SetWord(ZeroPacked(c), 1, asuint(h.hitData.hitT)),
                    HitTypeSDFGrid, h.instanceID, h.hitData.value)
    ELSE ZeroPacked(c)

SDFGridHit_pack(c, h) ==
    IF SCENE_HAS_GEOMETRY_TYPE(c, "SDFGrid")
    THEN packHeader(c, SetWord(ZeroPacked(c), 2, asuint(h.hitData.hitT)),
                    HitTypeSDFGrid, h.instanceID, h.hitData.value)
    ELSE ZeroPacked(c)

VolumeHit_init(c, packed) ==
    IF c.useCompression
    THEN [t |-> asfloat(packed[1]), g |-> f16tof32(And(packed[0], LowBits16))]
    ELSE [t |-> asfloat(packed[1]), g |-> asfloat(packed[2])]

\* Mutant: with compression g is assigned to word 0 instead of or-ed into it.
VolumeHit_pack_Overwrite(c, h, rne) ==
    LET p == packHeaderType(c, ZeroPacked(c), HitTypeVolume)
    IN IF c.useCompression
       THEN SetWord(SetWord(p, 1, asuint(h.t)), 0, And(f32tof16(h.g, rne), LowBits16))
       ELSE SetWord(SetWord(p, 1, asuint(h.t)), 2, asuint(h.g))

\* Mutant: without compression t and g are stored in each other's word.
VolumeHit_pack_SwappedWords(c, h, rne) ==
    LET p == packHeaderType(c, ZeroPacked(c), HitTypeVolume)
    IN IF c.useCompression
       THEN LET p1 == SetWord(p, 1, asuint(h.t))
            IN SetWord(p1, 0, Or(p1[0], And(f32tof16(h.g, rne), LowBits16)))
       ELSE SetWord(SetWord(p, 2, asuint(h.t)), 1, asuint(h.g))

VolumeHit_pack(c, h, rne) ==
    LET p == packHeaderType(c, ZeroPacked(c), HitTypeVolume)
    IN IF c.useCompression
       THEN LET p1 == SetWord(p, 1, asuint(h.t))
            IN SetWord(p1, 0, Or(p1[0], And(f32tof16(h.g, rne), LowBits16)))
       ELSE SetWord(SetWord(p, 1, asuint(h.t)), 2, asuint(h.g))

---------------------------------------------------------------------------
(* Configurations and inputs explored *)

\* Field widths 0 .. MaxSmallBits are explored one by one; the larger widths
\* are the ones at which the layout changes shape.
MaxSmallBits == 1

\* kTypeBits is at least 1 (its value without HIT_INFO_DEFINES): a tag field
\* of no bits cannot tell a hit from HitType::None.
TypeBitsChoices == (1 .. MaxSmallBits) \cup {3, 4, 16, 17}

InstanceIDBitsChoices == (0 .. MaxSmallBits) \cup {12, 28, 29, 30, 32}

PrimitiveIndexBitsChoices == (0 .. MaxSmallBits) \cup {16, 17, 31, 32}

GeometryTypes == {"TriangleMesh", "DisplacedTriangleMesh", "Curve", "SDFGrid"}

SDFGridImplementations == {"NDSDF", "SVS", "SBS", "SVO"}

\* The builds of one choice of widths: how a shift by 32 comes out matters
\* only when a field is 32 bits wide.
BitConfigs ==
    {c \in [typeBits : TypeBitsChoices,
            instanceIDBits : InstanceIDBitsChoices,
            primitiveIndexBits : PrimitiveIndexBitsChoices,
            useCompression : BOOLEAN,
            shiftWraps : BOOLEAN] :
        /\ c.typeBits + c.instanceIDBits + c.primitiveIndexBits <= 64
        /\ c.shiftWraps => (c.instanceIDBits = 32 \/ c.primitiveIndexBits = 32)}

WithScene(c, g, s) ==
    [typeBits |-> c.typeBits, instanceIDBits |-> c.instanceIDBits,
     primitiveIndexBits |-> c.primitiveIndexBits,
     useCompression |-> c.useCompression, shiftWraps |-> c.shiftWraps,
     geometryTypes |-> g, sdfImpl |-> s]

\* Every choice of widths, in a scene with all geometry types and NDSDF grids.
WideConfigs == {WithScene(c, GeometryTypes, "NDSDF") : c \in BitConfigs}

\* The words a field of n bits is fed: in range (nothing, its top bit, all of
\* its bits, the numbers of the spec's scenario when they fit) and out of
\* range (the first bit above the field, all 32 bits, the scenario's 123456).
LowBits(n) == 0 .. (n - 1)

\* The instanceID 5 and the primitiveIndex 123456 of the spec's scenario A.
Word5 == ToWord(5)

Word123456 == ToWord(123456)

InRange(w, n) == w \subseteq LowBits(n)

FieldProbes(n) ==
    {Zero, AllOnes, LowBits(n), Word123456}
        \cup {{b} : b \in {n - 1, n} \cap Bit}

InstanceIDProbes(c) == FieldProbes(kInstanceIDBits(c)) \cup {Word5}

PrimitiveIndexProbes(c) == FieldProbes(kPrimitiveIndexBits(c))

\* The words a raw PackedHitInfo is made of: nothing, everything, and one
\* bit on either side of each field boundary of the configuration.
BoundaryBits(c) ==
    Bit \cap {kPrimitiveIndexBits(c) - 1, kPrimitiveIndexBits(c),
              kInstanceIDBits(c) - 1, kInstanceIDBits(c),
              kPrimitiveIndexBits(c) + kInstanceIDBits(c) - 1,
              kPrimitiveIndexBits(c) + kInstanceIDBits(c),
              kTypeOffset(c) - 1, kTypeOffset(c), 31}

RawPackedProbes(c) ==
    {[i \in DOMAIN ZeroPacked(c) |-> IF i = 0 THEN w0 ELSE IF i = 1 THEN w1 ELSE w2] :
        w0 \in {Zero, AllOnes} \cup {{b} : b \in BoundaryBits(c)},
        w1 \in {Zero, AllOnes, LowBits(kPrimitiveIndexBits(c))}
                \cup {{b} : b \in {kPrimitiveIndexBits(c)} \cap Bit},
        w2 \in {Zero, AllOnes}}

PackedProbes(c) ==
    {[i \in DOMAIN ZeroPacked(c) |-> w] : w \in {Zero, AllOnes}}

---------------------------------------------------------------------------
(* The header codec applied on its own *)

NoValue == [none |-> TRUE]

InitHeader ==
    /\ cfg \in WideConfigs
    /\ pc = "start"
    /\ op = "none"
    /\ inp = NoValue
    /\ data = ZeroPacked(cfg)
    /\ acc = "none"
    /\ out = NoValue

\* HitInfo::packHeader(packed, type, instanceID, primitiveIndex)
DoPackHeader ==
    /\ pc = "start"
    /\ \E p \in PackedProbes(cfg), type \in HitType,
          instanceID \in InstanceIDProbes(cfg),
          primitiveIndex \in PrimitiveIndexProbes(cfg) :
            /\ inp' = [packed |-> p, type |-> type, instanceID |-> instanceID,
                       primitiveIndex |-> primitiveIndex]
            /\ data' = packHeader(cfg, p, type, instanceID, primitiveIndex)
    /\ op' = "packHeader"
    /\ pc' = "packed"
    /\ UNCHANGED <<cfg, acc, out>>

\* HitInfo::packHeader(packed, type)
DoPackHeaderType ==
    /\ pc = "start"
    /\ \E p \in PackedProbes(cfg), type \in HitType :
            /\ inp' = [packed |-> p, type |-> type]
            /\ data' = packHeaderType(cfg, p, type)
    /\ op' = "packHeaderType"
    /\ pc' = "packed"
    /\ UNCHANGED <<cfg, acc, out>>

\* HitInfo::unpackHeader(packed, instanceID, primitiveIndex)
DoUnpackHeader ==
    /\ pc = "packed"
    /\ out' = unpackHeader(cfg, data)
    /\ acc' = "unpackHeader"
    /\ pc' = "done"
    /\ UNCHANGED <<cfg, op, inp, data>>

\* A PackedHitInfo read back from a buffer: any words at all.
DoReadPacked ==
    /\ pc = "start"
    /\ \E p \in RawPackedProbes(cfg) :
            /\ inp' = [packed |-> p]
            /\ data' = p
    /\ op' = "readPacked"
    /\ pc' = "packed"
    /\ UNCHANGED <<cfg, acc, out>>

NextHeader == DoPackHeader \/ DoPackHeaderType \/ DoReadPacked \/ DoUnpackHeader

SpecHeader == InitHeader /\ [][NextHeader]_vars

---------------------------------------------------------------------------
(* HitInfo: construction, then queries on the stored words *)

\* Scenes that lack some geometry type or use another SDF grid
\* implementation, for the widths of the spec's scenario and one bit more.
SceneConfigs ==
    {WithScene(c, g, s) :
        c \in {b \in BitConfigs : b.typeBits = 4 /\ b.instanceIDBits = 12
                                  /\ b.primitiveIndexBits \in {16, 17}},
        g \in {GeometryTypes, {"TriangleMesh"}, {}},
        s \in SDFGridImplementations}

Configs == WideConfigs \cup SceneConfigs

\* 0.25f, 0.75f, 1.0f, 10.0f, 0.3f, 1.5f
Float_0_25 == ToWord(1048576000)
Float_0_75 == ToWord(1061158912)
Float_1_0 == ToWord(1065353216)
Float_10_0 == ToWord(1092616192)
Float_0_3 == ToWord(1050253722)
Float_1_5 == ToWord(1069547520)

\* 127 * 2^-12 and 127 * 2^-24: barycentrics whose quantized values have bits
\* on both sides of bit 16 and in the lowest byte.
Float_127_4096 == MakeFloat(FALSE, 121, 63 * 131072)
Float_127_2p24 == MakeFloat(FALSE, 109, 63 * 131072)

\* The instanceID / primitiveIndex pairs of a typed hit: each field runs over
\* its probes while the other is zero or full.
HeaderFieldProbes(c) ==
    {<<i, p>> : i \in InstanceIDProbes(c),
                p \in {Zero, LowBits(kPrimitiveIndexBits(c))}}
    \cup {<<i, p>> : i \in {Zero, LowBits(kInstanceIDBits(c))},
                     p \in PrimitiveIndexProbes(c)}

\* Barycentrics that are quantized, and barycentrics stored as raw floats.
UnormBarycentrics ==
    {<<Float_0_25, Float_0_75>>, <<Float_1_0, Zero>>, <<Float_127_4096, Float_127_2p24>>}

RawBarycentrics == {<<Float_0_25, Float_0_75>>, <<AllOnes, {31}>>}

\* Barycentrics and displacement of a displaced triangle hit.
DisplacedPayloads ==
    {<<<<Float_0_25, Float_0_75>>, Float_1_5>>, <<<<Float_1_0, Zero>>, Float_0_3>>,
     <<<<Float_127_2p24, Float_127_4096>>, Float_1_5 \cup {31}>>}

\* Whether f32tof16 has to round f.
HalfInexact(f) == f32tof16(f, TRUE) # f32tof16(f, FALSE)

Roundings(f) == IF HalfInexact(f) THEN BOOLEAN ELSE {TRUE}

Init ==
    /\ cfg \in Configs
    /\ pc = "start"
    /\ op = "none"
    /\ inp = NoValue
    /\ data = ZeroPacked(cfg)
    /\ acc = "none"
    /\ out = NoValue

Built(name, input, words) ==
    /\ op' = name
    /\ inp' = input
    /\ data' = words
    /\ pc' = "built"
    /\ UNCHANGED <<cfg, acc, out>>

\* HitInfo::__init()
HitInfo_init == pc = "start" /\ Built("HitInfo", NoValue, ZeroPacked(cfg))

\* makeInvalidHit(): HitInfo hit = {};
makeInvalidHit == pc = "start" /\ Built("makeInvalidHit", NoValue, ZeroPacked(cfg))

\* HitInfo::__init(PackedHitInfo) and unpackHitInfo(PackedHitInfo)
HitInfo_initPacked ==
    pc = "start" /\ \E p \in RawPackedProbes(cfg) : Built("PackedHitInfo", [packed |-> p], p)

\* HitInfo::__init(TriangleHit)
HitInfo_initTriangleHit ==
    pc = "start" /\
    \E ip \in HeaderFieldProbes(cfg),
       b \in (IF cfg.useCompression THEN UnormBarycentrics ELSE RawBarycentrics) :
        LET h == [instanceID |-> ip[1], primitiveIndex |-> ip[2], barycentrics |-> b]
        IN Built("TriangleHit", h, TriangleHit_pack(cfg, h))

\* HitInfo::__init(DisplacedTriangleHit)
HitInfo_initDisplacedTriangleHit ==
    pc = "start" /\
    \E ip \in HeaderFieldProbes(cfg), bd \in DisplacedPayloads :
        \E rne \in Roundings(bd[2]) :
            LET h == [instanceID |-> ip[1], primitiveIndex |-> ip[2],
                      barycentrics |-> bd[1], displacement |-> bd[2]]
            IN Built("DisplacedTriangleHit", h @@ [rne |-> rne],
                     DisplacedTriangleHit_pack(cfg, h, rne))

\* HitInfo::__init(CurveHit)
HitInfo_initCurveHit ==
    pc = "start" /\
    \E ip \in HeaderFieldProbes(cfg), b \in RawBarycentrics :
        LET h == [instanceID |-> ip[1], primitiveIndex |-> ip[2], barycentrics |-> b]
        IN Built("CurveHit", h, CurveHit_pack(cfg, h))

\* HitInfo::__init(SDFGridHit)
HitInfo_initSDFGridHit ==
    pc = "start" /\
    \E ip \in HeaderFieldProbes(cfg), t \in {Float_10_0, AllOnes} :
        LET h == [instanceID |-> ip[1], hitData |-> SDFGridHitData(cfg, ip[2], t)]
        IN Built("SDFGridHit", h, SDFGridHit_pack(cfg, h))

\* HitInfo::__init(VolumeHit)
HitInfo_initVolumeHit ==
    pc = "start" /\
    \E t \in {Zero, Float_10_0, AllOnes},
       g \in {Zero, Float_0_3, Float_0_75 \cup {31}, AllOnes} :
        \E rne \in (IF cfg.useCompression THEN Roundings(g) ELSE {TRUE}) :
            LET h == [t |-> t, g |-> g]
            IN Built("VolumeHit", h @@ [rne |-> rne], VolumeHit_pack(cfg, h, rne))

Queried(name, result) ==
    /\ acc' = name
    /\ out' = result
    /\ pc' = "done"
    /\ UNCHANGED <<cfg, op, inp, data>>

\* The accessor a consumer calls after getType(): on a HitInfo built from a
\* typed hit the one of that type, on words read from a buffer any of them.
Calls(hitKind) ==
    op \in {hitKind, "PackedHitInfo", "unpackHitInfo", "HitInfo", "makeInvalidHit"}

HitInfo_isValid == pc = "built" /\ Queried("isValid", isValid(cfg, data))

HitInfo_getType == pc = "built" /\ Queried("getType", getType(cfg, data))

HitInfo_getTriangleHit ==
    pc = "built" /\ Calls("TriangleHit") /\ Queried("getTriangleHit", TriangleHit_init(cfg, data))

\* What a read of packed[2] or packed[3] can give when PackedHitInfo is a uint2.
StrayWords(c) == IF c.useCompression THEN {Zero, AllOnes} ELSE {Zero}

HitInfo_getDisplacedTriangleHit ==
    pc = "built" /\ Calls("DisplacedTriangleHit") /\
    \E stray \in StrayWords(cfg) :
        Queried("getDisplacedTriangleHit", DisplacedTriangleHit_init(cfg, data, stray))

HitInfo_getCurveHit ==
    pc = "built" /\ Calls("CurveHit") /\
    \E stray \in StrayWords(cfg) :
        Queried("getCurveHit", CurveHit_init(cfg, data, stray))

HitInfo_getSDFGridHit ==
    pc = "built" /\ Calls("SDFGridHit") /\
    \E stray \in StrayWords(cfg) :
        Queried("getSDFGridHit", SDFGridHit_init(cfg, data, stray))

HitInfo_getVolumeHit ==
    pc = "built" /\ Calls("VolumeHit") /\ Queried("getVolumeHit", VolumeHit_init(cfg, data))

\* Mutant: pack() returns the words with the payload cleared.
pack_HeaderOnly(d) == [i \in DOMAIN d |-> IF i <= 1 THEN d[i] ELSE Zero]

\* HitInfo::pack(): return data;
pack(d) == d

HitInfo_pack == pc = "built" /\ Calls("PackedHitInfo") /\ Queried("pack", pack(data))

getInstanceID(c, d) == unpackHeader(c, d).instanceID

\* Mutant: the primitiveIndex is taken from word 0 whatever kHeaderBits is.
getPrimitiveIndex_FromWord0(c, d) == And(d[0], FieldMask(c, kPrimitiveIndexBits(c)))

getPrimitiveIndex(c, d) == unpackHeader(c, d).primitiveIndex

HitInfo_getInstanceID ==
    pc = "built" /\ Calls("PackedHitInfo") /\ Queried("getInstanceID", getInstanceID(cfg, data))

HitInfo_getPrimitiveIndex ==
    pc = "built" /\ Calls("PackedHitInfo") /\
    Queried("getPrimitiveIndex", getPrimitiveIndex(cfg, data))

Next ==
    \/ HitInfo_init
    \/ makeInvalidHit
    \/ HitInfo_initPacked
    \/ HitInfo_initTriangleHit
    \/ HitInfo_initDisplacedTriangleHit
    \/ HitInfo_initCurveHit
    \/ HitInfo_initSDFGridHit
    \/ HitInfo_initVolumeHit
    \/ HitInfo_isValid
    \/ HitInfo_getType
    \/ HitInfo_getTriangleHit
    \/ HitInfo_getVolumeHit
    \/ HitInfo_pack

Spec == Init /\ [][Next]_vars

---------------------------------------------------------------------------
(* The variant codecs behind HitInfo: every constructor, every accessor, any *)
(* number of accessor calls on one HitInfo                                   *)

\* The widths at which the header changes shape (one word; two words; two
\* words with a 32-bit primitiveIndex; tag and instanceID sharing bits of
\* word 0), in a scene with every geometry type.
CodecWidths ==
    {c \in BitConfigs :
        /\ c.typeBits \in {3, 4}
        /\ c.instanceIDBits \in {0, 12, 28, 29}
        /\ c.primitiveIndexBits \in {0, 16, 17, 32}}

CodecConfigs == {WithScene(c, GeometryTypes, "SVO") : c \in CodecWidths} \cup SceneConfigs

\* Words read back from a buffer: the tag of each HitType over header and
\* payload bits that are clear, set, or set in the lowest byte only.
TaggedPackedProbes(c) ==
    {[i \in DOMAIN ZeroPacked(c) |->
        IF i = 0 THEN Or(Shl(c, ToWord(t), kTypeOffset(c)), And(w, LowBits(kTypeOffset(c))))
        ELSE IF i = 3 THEN Or(w, Float_1_5) ELSE w] :
        t \in HitType, w \in {Zero, AllOnes, ToWord(255)}}

InitCodec ==
    /\ cfg \in CodecConfigs
    /\ pc = "start"
    /\ op = "none"
    /\ inp = NoValue
    /\ data = ZeroPacked(cfg)
    /\ acc = "none"
    /\ out = NoValue

\* unpackHitInfo(PackedHitInfo): return HitInfo(packedHitInfo);
unpackHitInfo ==
    pc = "start" /\ \E p \in TaggedPackedProbes(cfg) : Built("unpackHitInfo", [packed |-> p], p)

\* The caller goes on to its next call on the same HitInfo.
NextQuery ==
    /\ pc = "done"
    /\ pc' = "built"
    /\ acc' = "none"
    /\ out' = NoValue
    /\ UNCHANGED <<cfg, op, inp, data>>

NextCodec ==
    \/ HitInfo_init
    \/ makeInvalidHit
    \/ unpackHitInfo
    \/ HitInfo_initPacked
    \/ HitInfo_initTriangleHit
    \/ HitInfo_initDisplacedTriangleHit
    \/ HitInfo_initCurveHit
    \/ HitInfo_initSDFGridHit
    \/ HitInfo_initVolumeHit
    \/ HitInfo_isValid
    \/ HitInfo_getType
    \/ HitInfo_getTriangleHit
    \/ HitInfo_getDisplacedTriangleHit
    \/ HitInfo_getCurveHit
    \/ HitInfo_getSDFGridHit
    \/ HitInfo_getVolumeHit
    \/ HitInfo_pack
    \/ HitInfo_getInstanceID
    \/ HitInfo_getPrimitiveIndex
    \/ NextQuery

SpecCodec == InitCodec /\ [][NextCodec]_vars

---------------------------------------------------------------------------
(* Properties of the header codec (checked under SpecHeader) *)

\* type < 2^kTypeBits
TagFits(c, type) == kTypeBits(c) > 30 \/ type < Pow2(kTypeBits(c))

\* w mod 2^n, by arithmetic on the number the word holds.
ModPow2(w, n) ==
    IF n >= 32 THEN w
    ELSE LET lo == w \ {31}
         IN IF n = 31 THEN lo ELSE ToWord(Val(lo) % Pow2(n))

HeaderUnpacked == pc = "done" /\ op = "packHeader"

FieldsInRange ==
    /\ TagFits(cfg, inp.type)
    /\ InRange(inp.instanceID, kInstanceIDBits(cfg))
    /\ InRange(inp.primitiveIndex, kPrimitiveIndexBits(cfg))

HeaderRecovered ==
    /\ out.instanceID = inp.instanceID
    /\ out.primitiveIndex = inp.primitiveIndex

\* C1: with headerBits <= 32, unpackHeader of the words packHeader wrote for
\* a fitting tag and in-range instanceID and primitiveIndex returns exactly
\* that instanceID and primitiveIndex.
C1_HeaderRoundTripOneWord ==
    (HeaderUnpacked /\ kHeaderBits(cfg) <= 32 /\ FieldsInRange) => HeaderRecovered

C1_Witness ==
    /\ HeaderUnpacked /\ kHeaderBits(cfg) = 32 /\ FieldsInRange
    /\ inp.type = HitTypeSDFGrid
    /\ inp.instanceID = LowBits(kInstanceIDBits(cfg)) /\ inp.instanceID # Zero
    /\ inp.primitiveIndex = LowBits(kPrimitiveIndexBits(cfg)) /\ inp.primitiveIndex # Zero
    /\ inp.packed[0] = AllOnes

\* C2 as stated: with 32 < headerBits <= 64 and any split of the bits, the
\* in-range instanceID and primitiveIndex are recovered exactly.
C2_Original_AnySplit ==
    (HeaderUnpacked /\ kHeaderBits(cfg) > 32 /\ kHeaderBits(cfg) <= 64 /\ FieldsInRange)
        => HeaderRecovered

\* C2 (amended): with 32 < headerBits <= 64 and typeBits + instanceIDBits <= 32
\* (the tag and the instanceID fit side by side in word 0), the in-range
\* instanceID and primitiveIndex are recovered exactly.
C2_HeaderRoundTripTwoWords ==
    (/\ HeaderUnpacked /\ kHeaderBits(cfg) > 32 /\ kHeaderBits(cfg) <= 64
     /\ kTypeBits(cfg) + kInstanceIDBits(cfg) <= 32
     /\ FieldsInRange)
        => HeaderRecovered

C2_Witness ==
    /\ HeaderUnpacked /\ kHeaderBits(cfg) > 32
    /\ kTypeBits(cfg) + kInstanceIDBits(cfg) = 32 /\ FieldsInRange
    /\ inp.type = HitTypeCurve
    /\ inp.instanceID = LowBits(kInstanceIDBits(cfg)) /\ inp.instanceID # Zero
    /\ inp.primitiveIndex = LowBits(kPrimitiveIndexBits(cfg)) /\ inp.primitiveIndex # Zero

ScenarioA ==
    /\ kTypeBits(cfg) = 4 /\ kInstanceIDBits(cfg) = 12 /\ kPrimitiveIndexBits(cfg) = 16
    /\ inp.type = HitTypeTriangle
    /\ inp.instanceID = Word5
    /\ inp.primitiveIndex = Word123456

C7_Original_TruncatesEverywhere ==
    (HeaderUnpacked /\ TagFits(cfg, inp.type)
     /\ InRange(inp.primitiveIndex, kPrimitiveIndexBits(cfg)))
        => out.instanceID = ModPow2(inp.instanceID, kInstanceIDBits(cfg))

\* C7 (amended): in every configuration with typeBits + instanceIDBits <= 32
\* (always so when headerBits <= 32), any 32-bit instanceID packed with an
\* in-range primitiveIndex unpacks to instanceID mod 2^instanceIDBits.
C7_InstanceIDTruncation ==
    (HeaderUnpacked /\ kTypeBits(cfg) + kInstanceIDBits(cfg) <= 32
     /\ InRange(inp.primitiveIndex, kPrimitiveIndexBits(cfg)))
        => out.instanceID = ModPow2(inp.instanceID, kInstanceIDBits(cfg))

C7_Witness ==
    /\ HeaderUnpacked /\ kHeaderBits(cfg) > 32
    /\ kTypeBits(cfg) + kInstanceIDBits(cfg) <= 32
    /\ InRange(inp.primitiveIndex, kPrimitiveIndexBits(cfg))
    /\ ~InRange(inp.instanceID, kInstanceIDBits(cfg))
    /\ out.instanceID # Zero /\ out.instanceID # inp.instanceID

---------------------------------------------------------------------------
(* Properties of HitInfo and the variant codecs (checked under Spec) *)

AllZero(d) == \A i \in DOMAIN d : d[i] = Zero

\* C3: in every configuration an all-zero PackedHitInfo has getType() == None
\* and isValid() == false, and the default-constructed HitInfo and
\* makeInvalidHit() hold exactly the all-zero words.
C3_ZeroIsInvalid ==
    /\ (pc = "done" /\ AllZero(data) /\ acc = "getType") => out = ToWord(HitTypeNone)
    /\ (pc = "done" /\ AllZero(data) /\ acc = "isValid") => out = FALSE
    /\ op \in {"HitInfo", "makeInvalidHit"} => AllZero(data)

C3_Witness ==
    /\ pc = "done" /\ op = "makeInvalidHit" /\ acc = "isValid" /\ out = FALSE
    /\ DOMAIN data = 0 .. 3

\* The tag of the variant a HitInfo was built from.
TagOf(kind) ==
    CASE kind = "TriangleHit" -> HitTypeTriangle
      [] kind = "DisplacedTriangleHit" -> HitTypeDisplacedTriangle
      [] kind = "CurveHit" -> HitTypeCurve
      [] kind = "SDFGridHit" -> HitTypeSDFGrid
      [] kind = "VolumeHit" -> HitTypeVolume

GeometryOf(kind) ==
    CASE kind = "TriangleHit" -> "TriangleMesh"
      [] kind = "DisplacedTriangleHit" -> "DisplacedTriangleMesh"
      [] kind = "CurveHit" -> "Curve"
      [] kind = "SDFGridHit" -> "SDFGrid"

GeometryHitKinds == {"TriangleHit", "DisplacedTriangleHit", "CurveHit", "SDFGridHit"}

HitKinds == GeometryHitKinds \cup {"VolumeHit"}

\* The primitiveIndex argument of packHeader for the hit in inp.
PrimitiveOf(kind, h) == IF kind = "SDFGridHit" THEN h.hitData.value ELSE h.primitiveIndex

\* A hit of an enabled variant with in-range instanceID and primitiveIndex.
EnabledInRangeHit ==
    /\ op \in HitKinds
    /\ op \in GeometryHitKinds =>
        /\ SCENE_HAS_GEOMETRY_TYPE(cfg, GeometryOf(op))
        /\ InRange(inp.instanceID, kInstanceIDBits(cfg))
        /\ InRange(PrimitiveOf(op, inp), kPrimitiveIndexBits(cfg))

AllTagsFit == TagFits(cfg, HitTypeVolume)

TagRecovered ==
    /\ acc = "getType" => out = ToWord(TagOf(op))
    /\ acc = "isValid" => out = TRUE

TriangleUnpacked ==
    /\ pc = "done" /\ op = "TriangleHit" /\ acc = "getTriangleHit"
    /\ SCENE_HAS_GEOMETRY_TYPE(cfg, "TriangleMesh")
    /\ InRange(inp.instanceID, kInstanceIDBits(cfg))
    /\ InRange(inp.primitiveIndex, kPrimitiveIndexBits(cfg))

\* C5 as stated: with the triangle geometry type enabled, TriangleHit(h.pack())
\* has the instanceID and primitiveIndex of h in every configuration.
C5_Original_EveryConfiguration ==
    TriangleUnpacked =>
        /\ out.instanceID = inp.instanceID
        /\ out.primitiveIndex = inp.primitiveIndex

\* C5 (amended): with the triangle geometry type enabled, TriangleHit(h.pack())
\* has the instanceID of h whenever typeBits + instanceIDBits <= 32, and the
\* primitiveIndex of h whenever headerBits <= 32 or compression is disabled
\* (with compression word 1 holds the barycentrics).
C5_TriangleIntegerFields ==
    TriangleUnpacked =>
        /\ kTypeBits(cfg) + kInstanceIDBits(cfg) <= 32 => out.instanceID = inp.instanceID
        /\ (kHeaderBits(cfg) <= 32 \/ ~cfg.useCompression)
              => out.primitiveIndex = inp.primitiveIndex

C5_Witness ==
    /\ TriangleUnpacked /\ cfg.useCompression /\ kHeaderBits(cfg) = 32
    /\ inp.instanceID = Word5 /\ inp.primitiveIndex = LowBits(kPrimitiveIndexBits(cfg))
    /\ inp.primitiveIndex # Zero
    /\ out.instanceID = Word5 /\ out.primitiveIndex = inp.primitiveIndex

VolumePacked == pc = "done" /\ op = "VolumeHit"

HalfBits(g, rne) == And(f32tof16(g, rne), LowBits16)

VolumeCompressedLayout ==
    /\ acc = "getType" => out = ToWord(HitTypeVolume)
    /\ acc = "getVolumeHit" => out.t = inp.t
    /\ And(data[0], LowBits16) = HalfBits(inp.g, inp.rne)
    /\ data[1] = inp.t

\* C9 as stated: in every configuration with compression enabled (and
\* typeBits that hold the Volume tag) a packed VolumeHit has getType() == Volume, t comes back with exactly its bits and
\* the low 16 bits of word 0 are exactly the half-float bits of g.
C9_Original_EveryConfiguration ==
    (VolumePacked /\ cfg.useCompression /\ TagFits(cfg, HitTypeVolume))
        => VolumeCompressedLayout

\* C9 (amended): the same in every configuration with compression enabled
\* whose typeBits hold the Volume tag and are at most 16, so that the tag
\* stays in the upper half of word 0.
C9_VolumeCompressed ==
    (VolumePacked /\ cfg.useCompression /\ TagFits(cfg, HitTypeVolume)
     /\ kTypeBits(cfg) <= 16)
        => VolumeCompressedLayout

C9_Witness ==
    /\ VolumePacked /\ cfg.useCompression /\ kTypeBits(cfg) = 16
    /\ acc = "getType" /\ out = ToWord(HitTypeVolume)
    /\ inp.g = AllOnes /\ inp.t = AllOnes
    /\ And(data[0], LowBits16) # Zero

TagBits(c) == kTypeOffset(c) .. (WordBits - 1)

\* C17: getType() is the number held by the top typeBits bits of word 0 and
\* nothing else, and isValid() is true exactly when those bits are not all
\* clear, whatever the rest of word 0 and the other words hold.
C17_TypeFromTopBits ==
    /\ (pc = "done" /\ acc = "getType") =>
          /\ out \subseteq LowBits(kTypeBits(cfg))
          /\ \A b \in LowBits(kTypeBits(cfg)) :
                (b \in out) <=> (kTypeOffset(cfg) + b \in data[0])
    /\ (pc = "done" /\ acc = "isValid") =>
          (out <=> And(data[0], TagBits(cfg)) # Zero)

C17_Witness ==
    /\ pc = "done" /\ acc = "isValid" /\ out = FALSE
    /\ op = "PackedHitInfo"
    /\ data[0] = {kTypeOffset(cfg) - 1} /\ data[1] = AllOnes
    /\ ~cfg.useCompression /\ data[2] = AllOnes

---------------------------------------------------------------------------
(* Properties of the payload layouts (checked under SpecCodec) *)

\* A hit of an enabled geometry variant with in-range instanceID and
\* primitiveIndex, packed into a HitInfo.
GeometryPacked(kind) ==
    /\ pc = "done" /\ op = kind
    /\ SCENE_HAS_GEOMETRY_TYPE(cfg, GeometryOf(kind))
    /\ InRange(inp.instanceID, kInstanceIDBits(cfg))
    /\ InRange(PrimitiveOf(kind, inp), kPrimitiveIndexBits(cfg))

\* The quantized barycentrics and the half-float displacement of the hit in inp.
QuantizedX == quantize(inp.barycentrics[1], Unorm24Scale)

QuantizedY == quantize(inp.barycentrics[2], Unorm24Scale)

HalfDisplacement == And(f32tof16(inp.displacement, inp.rne), LowBits16)

DisplacedQuantized ==
    /\ GeometryPacked("DisplacedTriangleHit")
    /\ InRange(QuantizedX, 24) /\ InRange(QuantizedY, 24)

\* x in word2 bits[31:8], the upper 8 bits of y in word2 bits[7:0], the low
\* 16 bits of y in word3 bits[31:16], the displacement in word3 bits[15:0];
\* the accessor returns ux, uy, d and the header fields.
DisplacedLayout ==
    /\ {2, 3} \subseteq DOMAIN data
    /\ \A b \in 0 .. 23 : (b \in QuantizedX) <=> (b + 8 \in data[2])
    /\ \A b \in 16 .. 23 : (b \in QuantizedY) <=> (b - 16 \in data[2])
    /\ \A b \in 0 .. 15 : (b \in QuantizedY) <=> (b + 16 \in data[3])
    /\ And(data[3], LowBits16) = HalfDisplacement
    /\ acc = "getDisplacedTriangleHit" =>
        /\ out.barycentrics[1].unorm = QuantizedX
        /\ out.barycentrics[2].unorm = QuantizedY
        /\ And(f32tof16(out.displacement, TRUE), LowBits16) = HalfDisplacement
        /\ out.instanceID = inp.instanceID
        /\ out.primitiveIndex = inp.primitiveIndex

\* C11 as stated: for quantized ux, uy below 2^24 the displaced-triangle
\* payload has the stated layout and unpack recovers ux, uy, d and the in-range
\* instanceID and primitiveIndex, in both header branches of any configuration.
C11_Original_BothBranches == DisplacedQuantized => DisplacedLayout

\* C11 (amended): the same without compression (a four-word PackedHitInfo)
\* and with typeBits + instanceIDBits <= 32, in both header branches.
C11_DisplacedLayout ==
    (/\ DisplacedQuantized /\ ~cfg.useCompression
     /\ kTypeBits(cfg) + kInstanceIDBits(cfg) <= 32)
        => DisplacedLayout

C11_Witness ==
    /\ DisplacedQuantized /\ ~cfg.useCompression /\ kHeaderBits(cfg) > 32
    /\ kTypeBits(cfg) + kInstanceIDBits(cfg) = 32
    /\ acc = "getDisplacedTriangleHit"
    /\ inp.barycentrics = <<Float_127_2p24, Float_127_4096>>
    /\ out.barycentrics[2].unorm = ToWord(127 * 4096)
    /\ And(data[2], 0 .. 7) = ToWord(7)
    /\ inp.instanceID = LowBits(kInstanceIDBits(cfg))
    /\ inp.primitiveIndex = LowBits(kPrimitiveIndexBits(cfg)) /\ inp.primitiveIndex # Zero

\* |u / scale - b| <= 1 / scale for a float b = k * 2^x (x <= 0) and a unorm u,
\* in exact arithmetic: ceil(k * scale / 2^-x) - 1 <= u <= floor(k * scale / 2^-x) + 1.
WithinOneStep(b, u, scale) ==
    IF b = Zero THEN Val(u) <= 1
    ELSE LET kx == OddPart(Pow2(23) + FloatMan(b), FloatExp(b) - 150)
             n == kx[1] * scale
             d == Pow2(-kx[2])
             lo == (n \div d) + (IF n % d = 0 THEN 0 ELSE 1) - 1
             hi == (n \div d) + 1
         IN lo <= Val(u) /\ Val(u) <= hi

\* The float is the value of some half float.
HalfExact(f) == f16tof32(f32tof16(f, TRUE)) = f

DisplacedDecoded ==
    /\ GeometryPacked("DisplacedTriangleHit") /\ acc = "getDisplacedTriangleHit"
    /\ ~cfg.useCompression

\* C12: a displaced-triangle barycentric component b in [0,1], encoded as
\* trunc(b * 16777215 + 0.5) and decoded as u / 16777215, comes back within
\* 1/16777215 of b, and a displacement that a half float holds exactly comes
\* back as exactly the same float.
C12_QuantizationBound ==
    DisplacedDecoded =>
        /\ \A i \in 1 .. 2 :
              WithinOneStep(inp.barycentrics[i], out.barycentrics[i].unorm, Unorm24Scale)
        /\ HalfExact(inp.displacement) => out.displacement = inp.displacement

TriangleCompressed == GeometryPacked("TriangleHit") /\ cfg.useCompression

\* C13: with compression enabled and barycentrics in [0,1], TriangleHit::pack
\* stores x in the low and y in the high 16 bits of word 1, each as a 16-bit
\* unorm within 1/65535 of the component, and unpack returns those unorms
\* over the scale 65535.
C13_TriangleCompressedBarycentrics ==
    TriangleCompressed =>
        /\ WithinOneStep(inp.barycentrics[1], And(data[1], LowBits16), Unorm16Scale)
        /\ WithinOneStep(inp.barycentrics[2], Shr(cfg, data[1], 16), Unorm16Scale)
        /\ acc = "getTriangleHit" =>
              \A i \in 1 .. 2 :
                /\ out.barycentrics[i].scale = Unorm16Scale
                /\ InRange(out.barycentrics[i].unorm, 16)
                /\ WithinOneStep(inp.barycentrics[i], out.barycentrics[i].unorm,
                                 Unorm16Scale)

C13_Witness ==
    /\ TriangleCompressed /\ acc = "getTriangleHit" /\ kHeaderBits(cfg) > 32
    /\ inp.barycentrics = <<Float_0_25, Float_0_75>>
    /\ out.barycentrics[1].unorm = ToWord(16384)
    /\ out.barycentrics[2].unorm = ToWord(49151)
    /\ inp.primitiveIndex # Zero

\* A packed Triangle hit without compression, or a packed Curve hit.
RawFloatPacked ==
    \/ GeometryPacked("TriangleHit") /\ ~cfg.useCompression
    \/ GeometryPacked("CurveHit")

RawFloatLayout ==
    /\ {2, 3} \subseteq DOMAIN data
    /\ data[2] = inp.barycentrics[1]
    /\ data[3] = inp.barycentrics[2]
    /\ acc \in {"getTriangleHit", "getCurveHit"} =>
        /\ out.barycentrics = inp.barycentrics
        /\ out.instanceID = inp.instanceID
        /\ out.primitiveIndex = inp.primitiveIndex

\* C14 as stated: for Triangle without compression and for Curve whatever the
\* compression flag, words 2 and 3 hold the bit patterns of barycentrics.x and
\* .y and unpack returns them with the in-range instanceID and primitiveIndex,
\* in both header branches.
C14_Original_CurveAnyCompression == RawFloatPacked => RawFloatLayout

\* C14 (amended): the same for Triangle and for Curve without compression, in
\* the configurations with typeBits + instanceIDBits <= 32.
C14_RawFloatPayload ==
    (/\ RawFloatPacked /\ ~cfg.useCompression
     /\ kTypeBits(cfg) + kInstanceIDBits(cfg) <= 32)
        => RawFloatLayout

C14_Witness ==
    /\ GeometryPacked("CurveHit") /\ ~cfg.useCompression /\ acc = "getCurveHit"
    /\ kHeaderBits(cfg) > 32
    /\ out.barycentrics = <<AllOnes, {31}>>
    /\ inp.primitiveIndex # Zero /\ out.primitiveIndex = inp.primitiveIndex

\* hitT in word 2, the integer field in the header's primitiveIndex slot, and
\* an SDFGridHit back that has the backend's one integer field and no other.
SDFGridLayout ==
    /\ 2 \in DOMAIN data
    /\ data[2] = inp.hitData.hitT
    /\ IF kHeaderBits(cfg) <= 32
       THEN And(data[0], LowBits(kPrimitiveIndexBits(cfg))) = inp.hitData.value
       ELSE data[1] = inp.hitData.value
    /\ acc = "getSDFGridHit" =>
        /\ out.instanceID = inp.instanceID
        /\ out.hitData.value = inp.hitData.value
        /\ out.hitData.hitT = inp.hitData.hitT
        /\ DOMAIN out.hitData = {"field", "value", "hitT"}
        /\ cfg.sdfImpl = "NDSDF" => out.hitData.field = "lod"
        /\ cfg.sdfImpl \in {"SVS", "SBS"} => out.hitData.field = "primitiveID"
        /\ cfg.sdfImpl = "SVO" => out.hitData.field = "svoIndex"

\* C15 as stated: for each SDF-grid backend, packing and unpacking an
\* SDFGridHit recovers the in-range instanceID, the backend's integer field
\* and the bit pattern of hitT (word 2), and touches no other integer field.
C15_Original_EveryBackend == GeometryPacked("SDFGridHit") => SDFGridLayout

\* C15 (amended): the same without compression and with
\* typeBits + instanceIDBits <= 32.
C15_SDFGridRoundTrip ==
    (/\ GeometryPacked("SDFGridHit") /\ ~cfg.useCompression
     /\ kTypeBits(cfg) + kInstanceIDBits(cfg) <= 32)
        => SDFGridLayout

C15_Witness ==
    /\ GeometryPacked("SDFGridHit") /\ ~cfg.useCompression /\ acc = "getSDFGridHit"
    /\ cfg.sdfImpl = "SBS" /\ kHeaderBits(cfg) <= 32
    /\ inp.instanceID = Word5
    /\ out.hitData = [field |-> "primitiveID",
                       value |-> LowBits(kPrimitiveIndexBits(cfg)), hitT |-> Float_10_0]
    /\ out.hitData.value # Zero

\* The geometry type behind a typed accessor.
GeometryOfAccessor(a) ==
    CASE a = "getTriangleHit" -> "TriangleMesh"
      [] a = "getDisplacedTriangleHit" -> "DisplacedTriangleMesh"
      [] a = "getCurveHit" -> "Curve"
      [] a = "getSDFGridHit" -> "SDFGrid"

GeometryAccessors ==
    {"getTriangleHit", "getDisplacedTriangleHit", "getCurveHit", "getSDFGridHit"}

DecodedDisabled ==
    /\ pc = "done" /\ acc \in GeometryAccessors
    /\ ~SCENE_HAS_GEOMETRY_TYPE(cfg, GeometryOfAccessor(acc))

\* C16: when a geometry type is disabled, the typed hit constructed from any
\* PackedHitInfo (whatever its tag and payload bits) has every field zero.
C16_DisabledDecodesToDefault ==
    DecodedDisabled =>
        /\ out.instanceID = Zero
        /\ acc = "getSDFGridHit" => (out.hitData.value = Zero /\ out.hitData.hitT = Zero)
        /\ acc # "getSDFGridHit" =>
              (out.primitiveIndex = Zero /\ out.barycentrics = <<Zero, Zero>>)
        /\ acc = "getDisplacedTriangleHit" => out.displacement = Zero

C16_Witness ==
    /\ DecodedDisabled /\ acc = "getCurveHit" /\ op = "unpackHitInfo"
    /\ getType(cfg, data) = ToWord(HitTypeCurve)
    /\ data[1] = AllOnes /\ ~cfg.useCompression /\ data[2] = AllOnes
    /\ out = [instanceID |-> Zero, primitiveIndex |-> Zero, barycentrics |-> <<Zero, Zero>>]

\* The words the constructor of the HitInfo stored.
ConstructedWords ==
    CASE op \in {"PackedHitInfo", "unpackHitInfo"} -> inp.packed
      [] op \in {"HitInfo", "makeInvalidHit"} -> [i \in DOMAIN data |-> Zero]
      [] op = "TriangleHit" -> TriangleHit_pack(cfg, inp)
      [] op = "DisplacedTriangleHit" -> DisplacedTriangleHit_pack(cfg, inp, inp.rne)
      [] op = "CurveHit" -> CurveHit_pack(cfg, inp)
      [] op = "SDFGridHit" -> SDFGridHit_pack(cfg, inp)
      [] op = "VolumeHit" -> VolumeHit_pack(cfg, inp, inp.rne)

\* C18: after any number of accessor calls a HitInfo holds the words it was
\* constructed with, and pack() returns them: HitInfo(p).pack() = p and
\* unpackHitInfo(p).pack() = p.
C18_NeverMutated ==
    pc \in {"built", "done"} =>
        /\ data = ConstructedWords
        /\ acc = "pack" => out = ConstructedWords

C18_Witness ==
    /\ pc = "done" /\ op = "unpackHitInfo" /\ acc = "pack"
    /\ out = inp.packed /\ data = inp.packed
    /\ ~cfg.useCompression /\ out[2] = AllOnes /\ out[0] # Zero

TypedAccessors == GeometryAccessors \cup {"getVolumeHit"}

\* A typed accessor has returned on words read back from a buffer, whose tag
\* may be None or that of any variant.
TypedAccessorReturned ==
    /\ pc = "done" /\ acc \in TypedAccessors
    /\ op \in {"unpackHitInfo", "PackedHitInfo"}

\* The header fields as the bits of the stored words.
HeaderInstanceID ==
    IF kHeaderBits(cfg) <= 32
    THEN {b \in LowBits(kInstanceIDBits(cfg)) : b + kPrimitiveIndexBits(cfg) \in data[0]}
    ELSE {b \in LowBits(kInstanceIDBits(cfg)) : b \in data[0]}

HeaderPrimitiveIndex ==
    IF kHeaderBits(cfg) <= 32
    THEN {b \in LowBits(kPrimitiveIndexBits(cfg)) : b \in data[0]}
    ELSE data[1]

\* The accessor's result is the decoding of the stored words by the variant's
\* layout (all zero when the variant's geometry type is disabled), with no
\* regard to the tag.
StructurallyDecoded ==
    IF acc = "getVolumeHit"
    THEN /\ out.t = data[1]
         /\ IF cfg.useCompression
            THEN out.g = f16tof32(And(data[0], LowBits16))
            ELSE out.g = data[2]
    ELSE IF ~SCENE_HAS_GEOMETRY_TYPE(cfg, GeometryOfAccessor(acc))
    THEN out.instanceID = Zero
    ELSE /\ out.instanceID = HeaderInstanceID
         /\ acc = "getTriangleHit" =>
              /\ out.primitiveIndex = HeaderPrimitiveIndex
              /\ IF cfg.useCompression
                 THEN /\ out.barycentrics[1].unorm = And(data[1], LowBits16)
                      /\ out.barycentrics[2].unorm = Shr(cfg, data[1], 16)
                 ELSE out.barycentrics = <<data[2], data[3]>>
         /\ acc = "getDisplacedTriangleHit" =>
              /\ out.primitiveIndex = HeaderPrimitiveIndex
              /\ {2, 3} \subseteq DOMAIN data
              /\ \A b \in 0 .. 23 : (b \in out.barycentrics[1].unorm) <=> (b + 8 \in data[2])
              /\ \A b \in 16 .. 23 : (b \in out.barycentrics[2].unorm) <=> (b - 16 \in data[2])
              /\ \A b \in 0 .. 15 : (b \in out.barycentrics[2].unorm) <=> (b + 16 \in data[3])
              /\ out.displacement = f16tof32(And(data[3], LowBits16))
         /\ acc = "getCurveHit" =>
              /\ out.primitiveIndex = HeaderPrimitiveIndex
              /\ {2, 3} \subseteq DOMAIN data
              /\ out.barycentrics = <<data[2], data[3]>>
         /\ acc = "getSDFGridHit" =>
              /\ out.hitData.value = HeaderPrimitiveIndex
              /\ 2 \in DOMAIN data
              /\ out.hitData.hitT = data[2]

\* C19 as stated: for every PackedHitInfo and every stored tag, each typed
\* accessor returns exactly the variant codec's decoding of the stored words.
C19_Original_EveryAccessor == TypedAccessorReturned => StructurallyDecoded

\* The accessor decodes words that a two-word PackedHitInfo does not have.
ReadsMissingWords ==
    /\ cfg.useCompression
    /\ acc \in {"getDisplacedTriangleHit", "getCurveHit", "getSDFGridHit"}
    /\ SCENE_HAS_GEOMETRY_TYPE(cfg, GeometryOfAccessor(acc))

\* C19 (amended): the same for getTriangleHit and getVolumeHit in every
\* configuration, and for getDisplacedTriangleHit, getCurveHit and
\* getSDFGridHit when compression is disabled or the geometry type is.
C19_UncheckedAccessors ==
    (TypedAccessorReturned /\ ~ReadsMissingWords) => StructurallyDecoded

C19_Witness ==
    /\ TypedAccessorReturned /\ acc = "getTriangleHit" /\ op = "unpackHitInfo"
    /\ SCENE_HAS_GEOMETRY_TYPE(cfg, "TriangleMesh")
    /\ getType(cfg, data) = ToWord(HitTypeVolume)
    /\ ~cfg.useCompression /\ data[2] = AllOnes
    /\ out.barycentrics = <<data[2], data[3]>>
    /\ out.primitiveIndex # Zero

\* The word indices packHeader / unpackHeader address.
HeaderWords(c) == IF kHeaderBits(c) <= 32 THEN {0} ELSE {0, 1}

\* The word indices a variant's pack() stores to and its constructor reads.
VariantWords(c, kind) ==
    CASE kind = "TriangleHit" -> HeaderWords(c) \cup (IF c.useCompression THEN {1} ELSE {2, 3})
      [] kind = "DisplacedTriangleHit" -> HeaderWords(c) \cup {2, 3}
      [] kind = "CurveHit" -> HeaderWords(c) \cup {2, 3}
      [] kind = "SDFGridHit" -> HeaderWords(c) \cup {2}
      [] kind = "VolumeHit" -> IF c.useCompression THEN {0, 1} ELSE {0, 1, 2}

\* A packed hit of a variant whose code is compiled in.
VariantPacked ==
    /\ pc \in {"built", "done"} /\ op \in HitKinds
    /\ op \in GeometryHitKinds => SCENE_HAS_GEOMETRY_TYPE(cfg, GeometryOf(op))

SizeIsTwoOrFour == DOMAIN data = 0 .. ((IF cfg.useCompression THEN 2 ELSE 4) - 1)

\* The words the variant addresses exist, and pack() left every other word zero.
WithinSize ==
    /\ VariantWords(cfg, op) \subseteq DOMAIN data
    /\ \A i \in DOMAIN data \ VariantWords(cfg, op) : data[i] = Zero

\* C20 as stated: PackedHitInfo has 2 words with compression and 4 without,
\* and every variant's pack() and unpack address only word indices below that
\* size.
C20_Original_EveryVariant ==
    /\ SizeIsTwoOrFour
    /\ VariantPacked => WithinSize

\* C20 (amended): PackedHitInfo has 2 words with compression and 4 without;
\* Triangle and Volume address only indices below that size in both modes,
\* DisplacedTriangle, Curve and SDFGrid only without compression.
C20_PackedSize ==
    /\ SizeIsTwoOrFour
    /\ (VariantPacked /\ (op \in {"TriangleHit", "VolumeHit"} \/ ~cfg.useCompression))
          => WithinSize

C20_Witness ==
    /\ VariantPacked /\ op = "TriangleHit" /\ cfg.useCompression
    /\ kHeaderBits(cfg) <= 32
    /\ DOMAIN data = {0, 1} /\ VariantWords(cfg, op) = {0, 1}
    /\ data[0] # Zero /\ data[1] = Or(Shl(cfg, ToWord(49151), 16), ToWord(16384))

---------------------------------------------------------------------------
(* The words packHeader writes *)

HeaderPacked == pc # "start" /\ op = "packHeader"

HeaderTypePacked == pc # "start" /\ op = "packHeaderType"

\* The words of the PackedHitInfo from index i on are those packHeader was given.
WordsKeptFrom(i) ==
    /\ DOMAIN data = DOMAIN inp.packed
    /\ \A j \in DOMAIN data : j >= i => data[j] = inp.packed[j]

\* C22: packHeader(type) sets word 0 to type << kTypeOffset and keeps every
\* other word; packHeader(type, instanceID, primitiveIndex) replaces word 0
\* alone when kHeaderBits <= 32 (32 included) and words 0 and 1 alone when
\* kHeaderBits > 32, so words 2 and 3 are never written; unpackHeader reads
\* the primitiveIndex from word 0 or from word 1 by the same test.
C22_PackHeaderFrame ==
    /\ HeaderTypePacked =>
            /\ data[0] = Shl(cfg, ToWord(inp.type), kTypeOffset(cfg))
            /\ WordsKeptFrom(1)
    /\ HeaderPacked =>
            IF kHeaderBits(cfg) <= 32
            THEN WordsKeptFrom(1)
            ELSE data[1] = inp.primitiveIndex /\ WordsKeptFrom(2)
    /\ (pc = "done" /\ acc = "unpackHeader") =>
            out.primitiveIndex =
                IF kHeaderBits(cfg) <= 32
                THEN And(data[0], FieldMask(cfg, kPrimitiveIndexBits(cfg)))
                ELSE data[1]

\* A header of exactly 32 bits packed over all-ones words: word 0 is replaced
\* and words 1 to 3 still hold all ones.
C22_Witness ==
    /\ HeaderPacked
    /\ kHeaderBits(cfg) = 32
    /\ ~cfg.useCompression
    /\ inp.packed[0] = AllOnes
    /\ inp.primitiveIndex = Zero
    /\ data[0] # AllOnes
    /\ data[1] = AllOnes /\ data[2] = AllOnes /\ data[3] = AllOnes

---------------------------------------------------------------------------
(* A primitiveIndex wider than its field *)

\* C23: in every configuration, a header packed with the type and the
\* instanceID in range and a primitiveIndex of 2^kPrimitiveIndexBits or more
\* still decodes to the instanceID that was packed, and getType() is still
\* the type that was packed.
C23_FieldsIsolated ==
    (/\ HeaderUnpacked
     /\ TagFits(cfg, inp.type)
     /\ InRange(inp.instanceID, kInstanceIDBits(cfg))
     /\ ~InRange(inp.primitiveIndex, kPrimitiveIndexBits(cfg)))
        => /\ out.instanceID = inp.instanceID
           /\ getType(cfg, data) = ToWord(inp.type)

---------------------------------------------------------------------------
(* Packing a variant of a disabled geometry type *)

\* A HitInfo built from a geometry hit whose geometry type the scene lacks.
PackedDisabled ==
    /\ pc # "start" /\ op \in GeometryHitKinds
    /\ ~SCENE_HAS_GEOMETRY_TYPE(cfg, GeometryOf(op))

\* C24: for Triangle, DisplacedTriangle, Curve and SDFGrid, when the geometry
\* type of the variant is disabled pack() returns the all-zero PackedHitInfo
\* whatever the fields of the hit are, and the HitInfo built from it has
\* getType() == None and isValid() == false.
C24_DisabledPacksInvalid ==
    PackedDisabled =>
        /\ AllZero(data)
        /\ (pc = "done" /\ acc = "getType") => out = ToWord(HitTypeNone)
        /\ (pc = "done" /\ acc = "isValid") => out = FALSE

\* A curve hit with an instanceID and barycentrics that are not zero, packed
\* in a scene without curves and found invalid.
C24_Witness ==
    /\ PackedDisabled /\ op = "CurveHit"
    /\ inp.instanceID # Zero /\ inp.barycentrics[1] # Zero
    /\ pc = "done" /\ acc = "isValid" /\ out = FALSE

---------------------------------------------------------------------------
(* The header accessors and the typed accessors *)

\* The typed hit an accessor of an enabled geometry type makes of the words.
\* Its header fields do not depend on what a read past the last word gives.
TypedHitOf(accessor) ==
    CASE accessor = "getTriangleHit" -> TriangleHit_init(cfg, data)
      [] accessor = "getDisplacedTriangleHit" -> DisplacedTriangleHit_init(cfg, data, Zero)
      [] accessor = "getCurveHit" -> CurveHit_init(cfg, data, Zero)
      [] accessor = "getSDFGridHit" -> SDFGridHit_init(cfg, data, Zero)

EnabledAccessors ==
    {a \in GeometryAccessors : SCENE_HAS_GEOMETRY_TYPE(cfg, GeometryOfAccessor(a))}

\* C25: on the same words and with the geometry type enabled, getInstanceID()
\* and getPrimitiveIndex() are the instanceID and the primitiveIndex of
\* getTriangleHit(), getDisplacedTriangleHit() and getCurveHit(), and
\* getPrimitiveIndex() is the integer field of the hitData of getSDFGridHit(),
\* whatever the words, with compression and with kHeaderBits > 32 too.
C25_HeaderAccessorsAgree ==
    /\ (pc = "done" /\ acc \in EnabledAccessors \ {"getSDFGridHit"}) =>
            /\ out.instanceID = getInstanceID(cfg, data)
            /\ out.primitiveIndex = getPrimitiveIndex(cfg, data)
    /\ (pc = "done" /\ acc \in EnabledAccessors \cap {"getSDFGridHit"}) =>
            out.hitData.value = getPrimitiveIndex(cfg, data)
    /\ (pc = "done" /\ acc = "getInstanceID") =>
            \A a \in EnabledAccessors \ {"getSDFGridHit"} :
                out = TypedHitOf(a).instanceID
    /\ (pc = "done" /\ acc = "getPrimitiveIndex") =>
            \A a \in EnabledAccessors :
                out = IF a = "getSDFGridHit" THEN TypedHitOf(a).hitData.value
                      ELSE TypedHitOf(a).primitiveIndex

\* getCurveHit() on two words read from a buffer, the header wider than 32
\* bits: its primitiveIndex is the whole of word 1, as getPrimitiveIndex() is.
C25_Witness ==
    /\ pc = "done" /\ acc = "getCurveHit" /\ acc \in EnabledAccessors
    /\ op = "unpackHitInfo"
    /\ cfg.useCompression /\ kHeaderBits(cfg) > 32 /\ kPrimitiveIndexBits(cfg) < 32
    /\ data[1] = AllOnes
    /\ out.primitiveIndex = AllOnes
    /\ out.instanceID # Zero

---------------------------------------------------------------------------
(* Producers and readers of a buffer of packed hits                        *)
(*                                                                         *)
(* One invocation per ray packs its hit and stores the PackedHitInfo, word *)
(* by word, in the buffer element of its own ray; a reader loads an        *)
(* element that has been stored and unpacks it.  In this specification     *)
(*   pc[t]   is the position of thread t,                                  *)
(*   inp[p]  is the TriangleHit of producer p,                             *)
(*   acc[t]  is the local PackedHitInfo of thread t and the index of the   *)
(*           next word it stores or loads (the reader: of which element),  *)
(*   data[s] is element s of the buffer,                                   *)
(*   out     is the element the reader unpacked last and the hit it got,   *)
(*   op      is what each element held before the dispatch.                *)
(***************************************************************************)

MaxProducers == 2

Producers == 1 .. MaxProducers

\* The reader thread.
Reader == 0

\* The buffer has one element more than there are producers.
Slots == 1 .. (MaxProducers + 1)

\* The buffer element of a producer: its own.
SlotOf(p) == p

\* Widths of the spec's scenario A, with and without compression.
BufferConfigs ==
    {WithScene(c, GeometryTypes, "NDSDF") :
        c \in {b \in BitConfigs : b.typeBits = 4 /\ b.instanceIDBits = 12
                                  /\ b.primitiveIndexBits = 16}}

\* The hits of the rays: in-range header fields, two different payloads.
ProducerHits(c) ==
    {[instanceID |-> Word5, primitiveIndex |-> ToWord(57920),
      barycentrics |-> <<Float_0_25, Float_0_75>>],
     [instanceID |-> LowBits(kInstanceIDBits(c)), primitiveIndex |-> Zero,
      barycentrics |-> <<Float_1_0, Zero>>]}

\* HitInfo(triangleHit).pack()
PackedHit(c, h) == pack(TriangleHit_pack(c, h))

Local(packed, next) == [packed |-> packed, next |-> next]

InitBuffer ==
    /\ cfg \in BufferConfigs
    /\ pc = [t \in Producers \cup {Reader} |-> IF t = Reader THEN "idle" ELSE "start"]
    /\ inp \in [Producers -> ProducerHits(cfg)]
    /\ \E stale \in PackedProbes(cfg) :
            /\ op = [stale |-> stale]
            /\ data = [s \in Slots |-> stale]
    /\ acc = [t \in Producers \cup {Reader} |-> Local(ZeroPacked(cfg), 0)]
    /\ out = NoValue

\* HitInfo hit = HitInfo(triangleHit); PackedHitInfo packed = hit.pack();
ProducerPack ==
    \E p \in Producers :
        /\ pc[p] = "start"
        /\ acc' = [acc EXCEPT ![p] = Local(PackedHit(cfg, inp[p]), 0)]
        /\ pc' = [pc EXCEPT ![p] = "store"]
        /\ UNCHANGED <<cfg, op, inp, data, out>>

\* buffer[slot] = packed, one 32-bit word at a time.
ProducerStore ==
    \E p \in Producers :
        /\ pc[p] = "store"
        /\ LET i == acc[p].next
           IN /\ data' = [data EXCEPT ![SlotOf(p)] = SetWord(@, i, acc[p].packed[i])]
              /\ acc' = [acc EXCEPT ![p].next = i + 1]
              /\ pc' = [pc EXCEPT ![p] = IF i + 1 = PackedSize(cfg) THEN "written" ELSE "store"]
        /\ UNCHANGED <<cfg, op, inp, out>>

\* The reader picks an element whose producer has stored it.
ReaderBegin ==
    /\ pc[Reader] = "idle"
    /\ \E p \in Producers :
            /\ pc[p] = "written"
            /\ acc' = [acc EXCEPT ![Reader] =
                          [packed |-> ZeroPacked(cfg), next |-> 0, slot |-> SlotOf(p)]]
    /\ pc' = [pc EXCEPT ![Reader] = "load"]
    /\ UNCHANGED <<cfg, op, inp, data, out>>

\* packed = buffer[slot], one 32-bit word at a time.
ReaderLoad ==
    /\ pc[Reader] = "load"
    /\ LET i == acc[Reader].next
       IN /\ acc' = [acc EXCEPT ![Reader].packed = SetWord(@, i, data[acc[Reader].slot][i]),
                                 ![Reader].next = i + 1]
          /\ pc' = [pc EXCEPT ![Reader] = IF i + 1 = PackedSize(cfg) THEN "loaded" ELSE "load"]
    /\ UNCHANGED <<cfg, op, inp, data, out>>

\* unpackHitInfo(packed).getTriangleHit()
ReaderUnpack ==
    /\ pc[Reader] = "loaded"
    /\ out' = [slot |-> acc[Reader].slot,
               hit |-> TriangleHit_init(cfg, acc[Reader].packed)]
    /\ pc' = [pc EXCEPT ![Reader] = "idle"]
    /\ UNCHANGED <<cfg, op, inp, data, acc>>

NextBuffer ==
    \/ ProducerPack
    \/ ProducerStore
    \/ ReaderBegin
    \/ ReaderLoad
    \/ ReaderUnpack

SpecBuffer == InitBuffer /\ [][NextBuffer]_vars

\* The buffer after the producers of order[1], order[2], ... up to order[k]
\* have run one after the other, each from its pack to its last store.
RECURSIVE RunSequentially(_, _, _)
RunSequentially(order, k, buffer) ==
    IF k = 0 THEN buffer
    ELSE LET p == order[k]
         IN [RunSequentially(order, k - 1, buffer)
                EXCEPT ![SlotOf(p)] = PackedHit(cfg, inp[p])]

\* The buffer before the dispatch.
InitialBuffer == [s \in Slots |-> op.stale]

AllWritten == \A p \in Producers : pc[p] = "written"

\* The hit a reader gets from the element of producer p: the fields of the
\* producer's hit, the barycentrics as 16-bit unorms with compression.
HitOf(p) ==
    [instanceID |-> inp[p].instanceID,
     primitiveIndex |-> inp[p].primitiveIndex,
     barycentrics |->
        IF cfg.useCompression
        THEN unpackUnorm2x16(packUnorm2x16_unsafe(inp[p].barycentrics))
        ELSE inp[p].barycentrics]

\* C21: whatever the interleaving of the producers' and the reader's steps,
\* once every producer has stored its PackedHitInfo in its own element the
\* buffer is the one the producers leave when run one after the other, in
\* any order; an element stays as stored, and a reader of a stored element
\* gets the hit that element's producer packed.
C21_InterleavingsAgree ==
    /\ AllWritten =>
            \A order \in Permutations(Producers) :
                data = RunSequentially(order, MaxProducers, InitialBuffer)
    /\ \A p \in Producers :
            pc[p] = "written" => TriangleHit_init(cfg, data[SlotOf(p)]) = HitOf(p)
    /\ out # NoValue =>
            \E p \in Producers : out.slot = SlotOf(p) /\ out.hit = HitOf(p)

\* Two producers with different hits have stored over all-ones elements; the
\* reader has unpacked the second one's element and is loading the first's.
C21_Witness ==
    /\ AllWritten
    /\ inp[1] # inp[2]
    /\ op.stale[0] = AllOnes
    /\ out # NoValue /\ out.slot = SlotOf(2) /\ out.hit = HitOf(2)
    /\ pc[Reader] = "load" /\ acc[Reader].slot = SlotOf(1) /\ acc[Reader].next = 1
    /\ data[SlotOf(1)] # data[SlotOf(2)]

---------------------------------------------------------------------------
(* The BSDF viewer's compute pass (src/unnamed/part_003 lines 39-427)      *)
(*                                                                         *)
(* main runs BSDFViewer::execute once for every thread of the dispatch     *)
(* grid, the threads in any interleaving.  A thread is named by its pixel. *)
(* In this specification                                                   *)
(*   cfg     is params (frameDim, selectedPixel, viewerMode, viewport),    *)
(*   pc[t]   is the position of thread t in execute,                       *)
(*   inp[t]  is the local variable output of thread t,                     *)
(*   data    is the texture outputColor, out the buffer pixelData,         *)
(*   acc[t]  is the list of the locations thread t has stored to,          *)
(*   op      is the extent of the dispatch grid.                           *)
(***************************************************************************)

\* The dispatch grid has MaxGridDim threads along x and along y.
MaxGridDim == 2

Axis == 0 .. (MaxGridDim - 1)

Grid == Axis \X Axis

\* any(a >= b) and all(a == b) of two uint2
any_ge(a, b) == a[1] >= b[1] \/ a[2] >= b[2]

\* Mutant: one equal component is enough.
all_eq_AnyComponent(a, b) == a[1] = b[1] \/ a[2] = b[2]

all_eq(a, b) == a[1] = b[1] /\ a[2] = b[2]

\* getViewportCoord(pixel) is (pixel + 0.5 - viewportOffset) * viewportScale.
\* With an integer offset o and a scale of 1 / n, n a positive integer, a
\* component of it is in [0,1) exactly when o <= pixel < o + n.
uvInUnitSquare(params, pixel) ==
    \A i \in {1, 2} :
        /\ params.viewportOffset[i] <= pixel[i]
        /\ pixel[i] < params.viewportOffset[i] + params.viewportSize

\* float3 output of execute: 0, or what evalBSDFSlice or evalSphere gives for
\* the pixel.
ViewerOutput(params, pixel) ==
    IF params.viewerMode = "Slice"
    THEN IF uvInUnitSquare(params, pixel)
         THEN [fn |-> "evalBSDFSlice", pixel |-> pixel]
         ELSE [fn |-> "zero"]
    ELSE IF params.viewerMode = "Material"
    THEN [fn |-> "evalSphere", pixel |-> pixel]
    ELSE [fn |-> "zero"]

\* float4(rgb, a)
float4(rgb, a) == [rgb |-> rgb, a |-> a]

\* The frames, selected pixels and modes of a dispatch: a frame that fits the
\* grid, a selected pixel in the frame, off the frame and off the grid.
ViewerParams ==
    {[frameDim |-> f, selectedPixel |-> sel, viewerMode |-> mode,
      viewportOffset |-> <<1, 0>>, viewportSize |-> MaxGridDim] :
        f \in (1 .. MaxGridDim) \X (1 .. MaxGridDim),
        sel \in {<<0, 0>>, <<MaxGridDim - 1, 0>>, <<0, MaxGridDim - 1>>,
                 <<MaxGridDim, MaxGridDim>>},
        mode \in {"Slice", "Material"}}

\* The texels of a texture of the size of the frame.
Texels(params) == {t \in Grid : ~any_ge(t, params.frameDim)}

InitViewer ==
    /\ cfg \in ViewerParams
    /\ pc = [t \in Grid |-> "start"]
    /\ op = [grid |-> <<MaxGridDim, MaxGridDim>>]
    /\ inp = [t \in Grid |-> NoValue]
    /\ data = [t \in Texels(cfg) |-> NoValue]
    /\ out = NoValue
    /\ acc = [t \in Grid |-> <<>>]

\* execute up to the store to outputColor: the test against frameDim, the
\* evaluation of output, outputColor[pixel] = float4(output, 1).
\* A store outside the texture changes nothing.
Viewer_writeColor ==
    \E pixel \in Grid :
        /\ pc[pixel] = "start"
        /\ IF any_ge(pixel, cfg.frameDim)
           THEN /\ pc' = [pc EXCEPT ![pixel] = "done"]
                /\ UNCHANGED <<inp, data, acc>>
           ELSE LET output == ViewerOutput(cfg, pixel)
                IN /\ inp' = [inp EXCEPT ![pixel] = output]
                   /\ data' = IF pixel \in DOMAIN data
                              THEN [data EXCEPT ![pixel] = float4(output, 1)]
                              ELSE data
                   /\ acc' = [acc EXCEPT ![pixel] = Append(@, <<"outputColor", pixel>>)]
                   /\ pc' = [pc EXCEPT ![pixel] = "written"]
        /\ UNCHANGED <<cfg, op, out>>

\* The rest of execute: if (all(pixel == params.selectedPixel)) pixelData[0] = px;
Viewer_writePixelData ==
    \E pixel \in Grid :
        /\ pc[pixel] = "written"
        /\ IF all_eq(pixel, cfg.selectedPixel)
           THEN /\ out' = [output |-> inp[pixel]]
                /\ acc' = [acc EXCEPT ![pixel] = Append(@, <<"pixelData", 0>>)]
           ELSE UNCHANGED <<out, acc>>
        /\ pc' = [pc EXCEPT ![pixel] = "done"]
        /\ UNCHANGED <<cfg, op, inp, data>>

NextViewer == Viewer_writeColor \/ Viewer_writePixelData

SpecViewer == InitViewer /\ [][NextViewer]_vars

\* The locations thread t has stored to, and how often to one of them.
StoredTo(t) == {acc[t][i] : i \in DOMAIN acc[t]}

Stores(t, loc) == Cardinality({i \in DOMAIN acc[t] : acc[t][i] = loc})

\* C26: with execute run once per thread of the grid, a thread whose pixel is
\* outside frameDim stores nothing; a thread in the frame stores to
\* outputColor at its own pixel alone, once by the time it is done, and with
\* alpha 1; pixelData[0] is stored to by the thread of selectedPixel alone,
\* once at most; so no location is stored to by two threads.
C26_DispatchRaceFree ==
    /\ \A t \in Grid :
            /\ any_ge(t, cfg.frameDim) => acc[t] = <<>>
            /\ StoredTo(t) \subseteq {<<"outputColor", t>>, <<"pixelData", 0>>}
            /\ Stores(t, <<"outputColor", t>>) <= 1
            /\ (pc[t] = "done" /\ ~any_ge(t, cfg.frameDim)) =>
                    /\ Stores(t, <<"outputColor", t>>) = 1
                    /\ data[t].a = 1
            /\ <<"pixelData", 0>> \in StoredTo(t) =>
                    /\ t = cfg.selectedPixel
                    /\ Stores(t, <<"pixelData", 0>>) = 1
    /\ \A t, u \in Grid : t # u => StoredTo(t) \cap StoredTo(u) = {}

\* A frame narrower than the grid, every thread done: the selected pixel's
\* thread has stored to pixelData[0], a thread off the frame to nothing.
C26_Witness ==
    /\ \A t \in Grid : pc[t] = "done"
    /\ cfg.frameDim = <<1, MaxGridDim>>
    /\ cfg.selectedPixel = <<0, MaxGridDim - 1>>
    /\ acc[<<1, 0>>] = <<>>
    /\ acc[cfg.selectedPixel] =
            <<<<"outputColor", cfg.selectedPixel>>, <<"pixelData", 0>>>>
    /\ out # NoValue
    /\ data[<<0, 0>>].a = 1

---------------------------------------------------------------------------
(* The BSDF optimizer's viewer pass (src/unnamed/part_002 lines 39-134)    *)
(*                                                                         *)
(* main runs BSDFViewer::execute once for every thread of the dispatch     *)
(* grid.  execute has one store on each of its paths, so a thread is one   *)
(* step.  In this specification cfg is params, pc[t] the position of       *)
(* thread t, inp[t] its viewportID and uv, data the texture output, acc[t] *)
(* the list of the locations thread t has stored to, op the extent of the  *)
(* grid; out is not used.                                                  *)
(***************************************************************************)

\* The grid is one thread wider than it is high, to hold three viewports.
OptimizerGrid == (0 .. MaxGridDim) \X Axis

\* Mutant: the difference viewport is tested for before the reference one.
OptimizerViewport_DiffFirst(params, pixel) ==
    IF pixel[1] >= params.diffViewPortOffset[1]
    THEN [viewportID |-> 1, viewportOffset |-> params.diffViewPortOffset]
    ELSE IF pixel[1] >= params.refViewPortOffset[1]
    THEN [viewportID |-> 2, viewportOffset |-> params.refViewPortOffset]
    ELSE [viewportID |-> 0, viewportOffset |-> params.initViewPortOffset]

\* uint viewportID and float2 viewportOffset of execute
OptimizerViewport(params, pixel) ==
    IF pixel[1] >= params.refViewPortOffset[1]
    THEN [viewportID |-> 2, viewportOffset |-> params.refViewPortOffset]
    ELSE IF pixel[1] >= params.diffViewPortOffset[1]
    THEN [viewportID |-> 1, viewportOffset |-> params.diffViewPortOffset]
    ELSE [viewportID |-> 0, viewportOffset |-> params.initViewPortOffset]

\* getViewportCoord(pixel, viewportOffset, viewPortScale): the coordinate
\* (pixel + 0.5 - viewportOffset) * viewPortScale, for a scale of 1 / n kept
\* as the fraction (2 * pixel + 1 - 2 * viewportOffset) / (2 * n).
getViewportCoord(pixel, viewportOffset, viewPortSize) ==
    [num |-> <<2 * pixel[1] + 1 - 2 * viewportOffset[1],
               2 * pixel[2] + 1 - 2 * viewportOffset[2]>>,
     den |-> 2 * viewPortSize]

\* any(uv < 0.f || uv >= 1.f)
uvOutside(uv) == \E i \in {1, 2} : uv.num[i] < 0 \/ uv.num[i] >= uv.den

\* evalBSDFSlice(uv, materialID, lod, sg), not evaluated
evalBSDFSlice(uv, materialID) == [fn |-> "evalBSDFSlice", uv |-> uv, materialID |-> materialID]

\* The float4 execute stores for a pixel of the frame.
OptimizerColor(params, pixel) ==
    LET vp == OptimizerViewport(params, pixel)
        uv == getViewportCoord(pixel, vp.viewportOffset, params.viewPortSize)
        fInitVal == evalBSDFSlice(uv, params.initMaterialID)
        fRefVal == evalBSDFSlice(uv, params.refMaterialID)
        fDiffVal == [fn |-> "abs", of |-> [fn |-> "minus", a |-> fInitVal, b |-> fRefVal]]
    IN IF uvOutside(uv) THEN float4([fn |-> "zero"], 1)
       ELSE IF vp.viewportID = 0 THEN float4(fInitVal, 1)
       ELSE IF vp.viewportID = 1 THEN float4(fDiffVal, 1)
       ELSE float4(fRefVal, 1)

\* Frames that fill the grid or leave its last column and row out; the three
\* viewports side by side, one hidden behind the other, or off the frame.
OptimizerParams ==
    {[frameDim |-> f, initViewPortOffset |-> <<0, 0>>,
      diffViewPortOffset |-> <<dx, 0>>, refViewPortOffset |-> <<rx, 1>>,
      viewPortSize |-> n, initMaterialID |-> "init", refMaterialID |-> "ref"] :
        f \in {<<MaxGridDim + 1, MaxGridDim>>, <<MaxGridDim, MaxGridDim - 1>>},
        dx \in 0 .. (MaxGridDim + 1), rx \in 0 .. (MaxGridDim + 1),
        n \in {1, MaxGridDim}}

InitOptimizer ==
    /\ cfg \in OptimizerParams
    /\ pc = [t \in OptimizerGrid |-> "start"]
    /\ op = [grid |-> <<MaxGridDim + 1, MaxGridDim>>]
    /\ inp = [t \in OptimizerGrid |-> NoValue]
    /\ data = [t \in {u \in OptimizerGrid : ~any_ge(u, cfg.frameDim)} |-> NoValue]
    /\ out = NoValue
    /\ acc = [t \in OptimizerGrid |-> <<>>]

\* BSDFViewer::execute(pixel) of the optimizer
Optimizer_execute ==
    \E pixel \in OptimizerGrid :
        /\ pc[pixel] = "start"
        /\ IF any_ge(pixel, cfg.frameDim)
           THEN UNCHANGED <<inp, data, acc>>
           ELSE /\ inp' = [inp EXCEPT ![pixel] =
                              [viewportID |-> OptimizerViewport(cfg, pixel).viewportID]]
                /\ data' = IF pixel \in DOMAIN data
                           THEN [data EXCEPT ![pixel] = OptimizerColor(cfg, pixel)]
                           ELSE data
                /\ acc' = [acc EXCEPT ![pixel] = Append(@, <<"output", pixel>>)]
        /\ pc' = [pc EXCEPT ![pixel] = "done"]
        /\ UNCHANGED <<cfg, op, out>>

NextOptimizer == Optimizer_execute

SpecOptimizer == InitOptimizer /\ [][NextOptimizer]_vars

\* The viewport coordinate of pixel t relative to the viewport at offset o.
CoordOf(t, o) == getViewportCoord(t, o, cfg.viewPortSize)

\* What the viewport of a pixel shows: the reference value from the column
\* of refViewPortOffset.x on, else |init - ref| from the column of
\* diffViewPortOffset.x on, else the initial value; black where the viewport
\* coordinate is not in [0,1) in both axes.
Shown(t) ==
    LET o == IF t[1] >= cfg.refViewPortOffset[1] THEN cfg.refViewPortOffset
             ELSE IF t[1] >= cfg.diffViewPortOffset[1] THEN cfg.diffViewPortOffset
             ELSE cfg.initViewPortOffset
        uv == CoordOf(t, o)
        init == evalBSDFSlice(uv, "init")
        ref == evalBSDFSlice(uv, "ref")
    IN IF ~(\A i \in {1, 2} : 0 <= uv.num[i] /\ uv.num[i] < uv.den)
       THEN [rgb |-> [fn |-> "zero"], a |-> 1]
       ELSE IF t[1] >= cfg.refViewPortOffset[1] THEN [rgb |-> ref, a |-> 1]
       ELSE IF t[1] >= cfg.diffViewPortOffset[1]
       THEN [rgb |-> [fn |-> "abs", of |-> [fn |-> "minus", a |-> init, b |-> ref]], a |-> 1]
       ELSE [rgb |-> init, a |-> 1]

\* C27: a thread whose pixel is outside frameDim stores nothing; a thread in
\* the frame stores to output once, at its own pixel, the value of the one
\* viewport its column selects: reference, else absolute difference, else
\* initial, and (0,0,0,1) where the viewport coordinate is outside [0,1).
C27_OneViewportPerPixel ==
    \A t \in OptimizerGrid :
        /\ any_ge(t, cfg.frameDim) => acc[t] = <<>>
        /\ (pc[t] = "start") => acc[t] = <<>>
        /\ (pc[t] = "done" /\ ~any_ge(t, cfg.frameDim)) =>
                /\ acc[t] = <<<<"output", t>>>>
                /\ data[t] = Shown(t)
        /\ (t \in DOMAIN data /\ pc[t] = "start") => data[t] = NoValue

\* Three viewports one pixel wide and high side by side in a frame that
\* fills the grid, the reference viewport a row lower than the others: the
\* first row shows the initial value, the difference and black, the second
\* row black below the initial value and the reference value in its column.
C27_Witness ==
    /\ \A t \in OptimizerGrid : pc[t] = "done"
    /\ cfg.frameDim = <<MaxGridDim + 1, MaxGridDim>>
    /\ cfg.viewPortSize = 1
    /\ cfg.diffViewPortOffset[1] = 1 /\ cfg.refViewPortOffset[1] = 2
    /\ data[<<0, 0>>].rgb.fn = "evalBSDFSlice" /\ data[<<0, 0>>].rgb.materialID = "init"
    /\ data[<<1, 0>>].rgb.fn = "abs"
    /\ data[<<2, 0>>].rgb.fn = "zero"
    /\ data[<<2, 1>>].rgb.fn = "evalBSDFSlice" /\ data[<<2, 1>>].rgb.materialID = "ref"
    /\ data[<<0, 1>>].rgb.fn = "zero"

---------------------------------------------------------------------------
(* The PBRT conductor BSDF (src/unnamed/part_000 lines 34-187)             *)
(*                                                                         *)
(* A vector is a triple of small integers; the values the code computes    *)
(* with functions that are not evaluated here (the Fresnel term, the GGX   *)
(* masking and density) are kept as terms.  In this specification data is  *)
(* the material instance (its bsdf), inp the arguments of sample, out what *)
(* sample returned and wrote to its out parameters, acc what getLobeTypes  *)
(* returned; cfg is not used.                                              *)
(***************************************************************************)

\* LobeType::SpecularReflection and LobeType::DeltaReflection
LobeTypeSpecularReflection == 2

LobeTypeDeltaReflection == 4

\* A float the code writes as a literal or as {}.
Const(v) == [fn |-> "const", value |-> v]

\* A float or float3 the code computes by calling fn.
Term(fn, args) == [fn |-> fn, value |-> args]

dot(a, b) == a[1] * b[1] + a[2] * b[2] + a[3] * b[3]

\* reflect(i, n) = i - 2 * dot(n, i) * n
reflect(i, n) ==
    <<i[1] - 2 * dot(n, i) * n[1], i[2] - 2 * dot(n, i) * n[2], i[3] - 2 * dot(n, i) * n[3]>>

Neg(v) == <<-v[1], -v[2], -v[3]>>

\* bsdf.D.isSingular()
isSingular(bsdf) == bsdf.D.singular

\* Mutant: the out parameters are assigned before woLocal.z is tested.
PBRTConductorBSDF_sample_AssignFirst(bsdf, wiLocal, h) ==
    IF wiLocal[3] < 0
    THEN [valid |-> FALSE, wo |-> <<0, 0, 0>>, pdf |-> Const(0), weight |-> Const(0),
          lobeType |-> 0]
    ELSE IF isSingular(bsdf)
    THEN [valid |-> TRUE,
          wo |-> <<-wiLocal[1], -wiLocal[2], wiLocal[3]>>,
          pdf |-> Const(1),
          weight |-> Term("evalFresnelConductor", <<wiLocal[3]>>),
          lobeType |-> LobeTypeDeltaReflection]
    ELSE LET woLocal == reflect(Neg(wiLocal), h)
         IN [valid |-> ~(woLocal[3] < 0),
             wo |-> woLocal,
             pdf |-> Term("evalPDF / (4 * abs(dot))", <<wiLocal, h>>),
             weight |-> Term("F * G2 / G1", <<wiLocal, woLocal, h>>),
             lobeType |-> LobeTypeSpecularReflection]

\* PBRTConductorBSDF::sample(wiLocal, wo, pdf, weight, lobeType, sg, bc):
\* the value returned and the out parameters; h is what D.sample(wiLocal, sg)
\* gives.
PBRTConductorBSDF_sample(bsdf, wiLocal, h) ==
    LET zero == [valid |-> FALSE, wo |-> <<0, 0, 0>>, pdf |-> Const(0),
                 weight |-> Const(0), lobeType |-> 0]
    IN IF wiLocal[3] < 0 THEN zero
       ELSE IF isSingular(bsdf)
       THEN [valid |-> TRUE,
             wo |-> <<-wiLocal[1], -wiLocal[2], wiLocal[3]>>,
             pdf |-> Const(1),
             weight |-> Term("evalFresnelConductor", <<wiLocal[3]>>),
             lobeType |-> LobeTypeDeltaReflection]
       ELSE LET woLocal == reflect(Neg(wiLocal), h)
            IN IF woLocal[3] < 0 THEN zero
               ELSE [valid |-> TRUE,
                     wo |-> woLocal,
                     pdf |-> Term("evalPDF / (4 * abs(dot))", <<wiLocal, h>>),
                     weight |-> Term("F * G2 / G1", <<wiLocal, woLocal, h>>),
                     lobeType |-> LobeTypeSpecularReflection]

\* PBRTConductorMaterialInstance::getLobeTypes(sd)
getLobeTypes(mi) ==
    IF isSingular(mi.bsdf) THEN LobeTypeDeltaReflection ELSE LobeTypeSpecularReflection

\* Incident directions on either side of the surface and along it.
Directions == {-1, 0, 1} \X {-1, 0, 1} \X {-1, 0, 1}

\* Microfacet normals D.sample can give: the axes.
SampledNormals == {<<0, 0, 1>>, <<1, 0, 0>>, <<0, 1, 0>>, <<0, 0, -1>>}

InitConductor ==
    /\ cfg = NoValue
    /\ pc = "start"
    /\ op = "none"
    /\ inp = NoValue
    /\ data \in {[bsdf |-> [D |-> [singular |-> sing]]] : sing \in BOOLEAN}
    /\ acc = NoValue
    /\ out = NoValue

\* bsdf.sample(wiLocal, woLocal, pdf, weight, lobeType, sg, BSDFContext())
Conductor_sample ==
    /\ pc = "start"
    /\ \E wiLocal \in Directions, h \in SampledNormals :
            /\ inp' = [wiLocal |-> wiLocal, h |-> h]
            /\ out' = PBRTConductorBSDF_sample(data.bsdf, wiLocal, h)
    /\ op' = "sample"
    /\ pc' = "sampled"
    /\ UNCHANGED <<cfg, data, acc>>

\* getLobeTypes(sd) on the same material instance
Conductor_getLobeTypes ==
    /\ pc = "sampled"
    /\ acc' = [lobeTypes |-> getLobeTypes(data)]
    /\ pc' = "done"
    /\ UNCHANGED <<cfg, op, inp, data, out>>

NextConductor == Conductor_sample \/ Conductor_getLobeTypes

SpecConductor == InitConductor /\ [][NextConductor]_vars

\* C28: when PBRTConductorBSDF::sample returns true its lobeType is what
\* getLobeTypes reports for the same BSDF, DeltaReflection with pdf 1 when
\* the distribution is singular and SpecularReflection otherwise; when it
\* returns false wo, pdf, weight and lobeType are all zero.
C28_LobeTypeConsistent ==
    /\ (pc \in {"sampled", "done"} /\ out.valid) =>
            /\ out.lobeType = getLobeTypes(data)
            /\ pc = "done" => out.lobeType = acc.lobeTypes
            /\ IF isSingular(data.bsdf)
               THEN out.lobeType = LobeTypeDeltaReflection /\ out.pdf = Const(1)
               ELSE out.lobeType = LobeTypeSpecularReflection
    /\ (pc \in {"sampled", "done"} /\ ~out.valid) =>
            /\ out.wo = <<0, 0, 0>>
            /\ out.pdf = Const(0)
            /\ out.weight = Const(0)
            /\ out.lobeType = 0

\* A rough conductor, the incident direction above the surface and the
\* sampled normal such that the reflected direction is below it: sample
\* returned false from its second test.
C28_Witness ==
    /\ pc = "done" /\ ~isSingular(data.bsdf)
    /\ inp.wiLocal[3] > 0 /\ reflect(Neg(inp.wiLocal), inp.h)[3] < 0
    /\ ~out.valid /\ out.lobeType = 0
    /\ acc.lobeTypes = LobeTypeSpecularReflection

====
